---- MODULE Spec2Model ----
(***************************************************************************)
(* Whistle punch clock: the time-entry handlers (clock-in, clock-out,      *)
(* status, heatmap) and the account handlers (register, login, logout,     *)
(* delete account) over the shared Postgres store.                         *)
(*                                                                         *)
(* Time is counted in whole minutes since 1970-01-01T00:00:00Z.  Every     *)
(* handler is an async function; each of its steps below is one awaited    *)
(* query together with the synchronous code that follows it, so handlers   *)
(* of different requests interleave between queries.  A request record     *)
(* holds the handler's position and the local variables that are still     *)
(* read later.  The variable clock is the store's clock (NOW()); the       *)
(* application server's clock (new Date()) runs skew minutes behind it.    *)
(* The variable sent is the HTTP response written by the step just taken,  *)
(* if any.  Two variables describe the environment of a run and never      *)
(* change: zones, the timezone values that the clock-in requests of the    *)
(* run carry, and serverOffset, the offset from UTC of the application     *)
(* server's local time zone (the TZ of its process), in minutes.  The      *)
(* variable jar holds the session cookies that clients can present: no     *)
(* cookie at all, and every token that a Set-Cookie header handed out; a   *)
(* client may keep a cookie after the store has dropped its token.         *)
(***************************************************************************)
EXTENDS Integers, Sequences, FiniteSets, TLC

VARIABLES clock, skew, zones, serverOffset, jar, users, nextUserId, entries,
          nextId, req, sent, page

vars ==
    <<clock, skew, zones, serverOffset, jar, users, nextUserId, entries, nextId,
      req, sent, page>>

----------------------------------------------------------------------------
(* Bounds of the model *)

\* number of rows the time_entries id sequence may hand out
MaxEntries == 2

\* minutes the application server's clock may run behind the store's
MaxSkew == 1

\* number of ids the users id sequence may hand out
MaxUsers == 3

\* number of session tokens that may exist, the initial ones included
MaxSessions == 4

\* minutes in an hour and in a day
Hour == 60

Day == 24 * Hour

\* the instants at which the clock is observed, by their hour since the
\* epoch:
\*   8787 Sat 1971-01-02 03:00Z (Fri 22:00 in New York)
\*   8795 Sat 1971-01-02 11:00Z (Sat 06:00 in New York) = 8787 + 8h
\*   8802 Sat 1971-01-02 18:00Z (Sat 13:00 in New York) = 8787 + 15h
\*   8818 Sun 1971-01-03 10:00Z (Sun 05:00 in New York) = 8802 + 16h
Instants == {8787 * Hour, 8795 * Hour, 8802 * Hour, 8818 * Hour}

\* the hours of eight days from Fri 1971-01-01 00:00Z on, each at its first
\* and at its last minute: every local hour of every weekday in UTC and in
\* New York
WeekInstants ==
    {(8760 + h) * Hour + m : h \in 0 .. (8 * 24 - 1), m \in {0, Hour - 1}}

FirstInstant == CHOOSE t \in Instants : \A s \in Instants : t <= s

\* the request handlers that may be in flight at once
RequestIds == {1, 2}

UserIds == {1, 2}

\* SQL NULL / JavaScript null and undefined
NULL == -1

\* session cookies that the clients hold at the start (NULL: no cookie):
\* the browser of user 1 is logged in, user 2 has no cookie
Cookies == {NULL, 1}

\* the accounts at the start: their email addresses and passwords
Emails == <<"ann@example.com", "bob@example.com">>

Passwords == <<"password-1", "password-2">>

\* what a request carries in place of a timezone string: no body at all
\* (request.body is undefined), a body without the property, and a value
\* that is not a string (a number)
NoBody == "<no body>"

Undefined == "<undefined>"

NotAString == "<42>"

\* a name that Intl.DateTimeFormat rejects with a RangeError
UnknownTimezone == "Mars/Olympus_Mons"

\* an unrecognized name of more than 100 characters
LongTimezone ==
    "Mars/Olympus_Mons/0123456789012345678901234567890123456789"
        \o "0123456789012345678901234567890123456789/Caldera"

\* the timezone values of the clock-in bodies that a browser sends
TimezoneInputs == {"UTC", "America/New_York", ""}

\* the timezone values of the clock-in requests that any client may send
AnyTimezoneInputs ==
    {"UTC", UnknownTimezone, LongTimezone, "", Undefined, NotAString, NoBody}

\* values of body.auto: the boolean true, a truthy non-boolean, or absent
AutoInputs == {"true", "truthy", "absent"}

----------------------------------------------------------------------------
(* The store *)

\* faulty variant: the query for the open entry has no user_id condition
OpenEntryIds_AnyUser(user_id) ==
    {id \in DOMAIN entries : entries[id].end_time = NULL}

OpenEntryIds(user_id) ==
    {id \in DOMAIN entries :
        entries[id].user_id = user_id /\ entries[id].end_time = NULL}

\* faulty variant: the cookie is taken for the id of the user, the
\* session_token column is not consulted
getCurrentUser_ById(sessionToken) ==
    IF sessionToken \in DOMAIN users THEN sessionToken ELSE NULL

getCurrentUser(sessionToken) ==
    IF sessionToken = NULL THEN NULL
    ELSE LET rows == {u \in DOMAIN users : users[u].session_token = sessionToken}
         IN  IF rows = {} THEN NULL ELSE CHOOSE u \in rows : TRUE

----------------------------------------------------------------------------
(* Timezone resolution: Intl.DateTimeFormat with timeZone, weekday, hour *)

ValidTimezones == {"UTC", "America/New_York"}

\* offset from UTC (New York is on standard time in January)
TzOffset(timezone) == IF timezone = "America/New_York" THEN -5 * Hour ELSE 0

WeekdayShort == <<"Sun", "Mon", "Tue", "Wed", "Thu", "Fri", "Sat">>

\* 1970-01-01 was a Thursday
LocalWeekday(timezone, now) ==
    WeekdayShort[((((now + TzOffset(timezone)) \div Day) + 4) % 7) + 1]

LocalHour(timezone, now) == ((now + TzOffset(timezone)) \div Hour) % 24

\* the hour part as formatted with hour12: false and parsed back: the hour
\* after local midnight is rendered "24" or "0" depending on the runtime's
\* hour-cycle resolution for en-US
HourParts(timezone, now) ==
    IF LocalHour(timezone, now) = 0 THEN {0, 24}
    ELSE {LocalHour(timezone, now)}

NoRestriction == "null"

SundayMessage == "Clock in/out is not available on Sundays."

SaturdayMessage == "Clock in/out is not available after 6pm on Saturdays."

\* the values checkWeekendRestriction(timezone) may return at instant now
\* faulty variant: only the Saturday-evening rule, Sundays are let through
checkWeekendRestriction_NoSunday(timezone, now) ==
    IF timezone \notin ValidTimezones THEN {NoRestriction}
    ELSE { IF LocalWeekday(timezone, now) = "Sat" /\ hour >= 18
                THEN SaturdayMessage
           ELSE NoRestriction : hour \in HourParts(timezone, now) }

\* faulty variant: the Saturday rule starts after the 18:00 hour
checkWeekendRestriction_After18(timezone, now) ==
    IF timezone \notin ValidTimezones THEN {NoRestriction}
    ELSE { IF LocalWeekday(timezone, now) = "Sun" THEN SundayMessage
           ELSE IF LocalWeekday(timezone, now) = "Sat" /\ hour > 18
                THEN SaturdayMessage
           ELSE NoRestriction : hour \in HourParts(timezone, now) }

checkWeekendRestriction(timezone, now) ==
    IF timezone \notin ValidTimezones THEN {NoRestriction}
    ELSE { IF LocalWeekday(timezone, now) = "Sun" THEN SundayMessage
           ELSE IF LocalWeekday(timezone, now) = "Sat" /\ hour >= 18
                THEN SaturdayMessage
           ELSE NoRestriction : hour \in HourParts(timezone, now) }

----------------------------------------------------------------------------
(* Requests and responses *)

NoResponse ==
    [kind |-> "none", user |-> NULL, timezone |-> "", status |-> 0,
     error |-> "none", body |-> <<>>]

Idle ==
    [pc |-> "idle", timezone |-> "", auto |-> "absent", user |-> NULL,
     entry_id |-> NULL, endTime |-> NULL, isWorking |-> FALSE,
     currentSession |-> <<>>, currentYear |-> NULL,
     email |-> "", passwordHash |-> <<>>]

\* no browser page is open: the requests come from any client
NoPage == <<>>

\* the handler of request r goes on to its next await
Continue(r, record) ==
    /\ req' = [req EXCEPT ![r] = record]
    /\ sent' = NoResponse

\* a response records the endpoint, the user the handler resolved and the
\* timezone of the request body it answers
sendError(r, kind, user, timezone, statusCode, error) ==
    /\ req' = [req EXCEPT ![r] = Idle]
    /\ sent' = [kind |-> kind, user |-> user, timezone |-> timezone,
                status |-> statusCode, error |-> error, body |-> <<>>]

sendJson(r, kind, user, timezone, statusCode, data) ==
    /\ req' = [req EXCEPT ![r] = Idle]
    /\ sent' = [kind |-> kind, user |-> user, timezone |-> timezone,
                status |-> statusCode, error |-> "none", body |-> <<data>>]

ClockInsInFlight ==
    Cardinality({r \in RequestIds :
                   req[r].pc \in {"ci_open", "ci_insert"}})

\* new Date() on the application server
ServerNow == clock - skew

\* bcrypt.hash(password, 10): a value that bcrypt.compare matches with the
\* password it was made from and with no other
bcryptHash(password) == <<"$2a$10$", password>>

bcryptCompare(password, passwordHash) == passwordHash = bcryptHash(password)

\* the users table and the session cookies at the start: every user has a
\* session token
InitUsers ==
    /\ users = [u \in UserIds |->
                  [email |-> Emails[u],
                   password_hash |-> bcryptHash(Passwords[u]),
                   session_token |-> u]]
    /\ nextUserId = Cardinality(UserIds) + 1
    /\ jar = Cookies

\* every user logged in, no rows in time_entries, no request in flight
EmptyStore ==
    /\ InitUsers
    /\ entries = <<>>
    /\ nextId = 1
    /\ req = [r \in RequestIds |-> Idle]
    /\ sent = NoResponse
    /\ page = NoPage

InitStore ==
    /\ clock = FirstInstant
    /\ EmptyStore

\* the application server in UTC, on a clock synchronised with the store's,
\* serving browsers
InitEnv ==
    /\ skew = 0
    /\ zones = TimezoneInputs
    /\ serverOffset = 0

Init == InitStore /\ InitEnv

\* the application server's clock may run behind the store's
InitSkew ==
    /\ InitStore
    /\ skew \in {0, MaxSkew}
    /\ zones = TimezoneInputs
    /\ serverOffset = 0

\* time passes to the next observed instant
Tick ==
    /\ \E t \in Instants : t > clock
    /\ clock' = CHOOSE t \in Instants :
                    t > clock /\ \A s \in Instants : s > clock => t <= s
    /\ sent' = NoResponse
    /\ UNCHANGED <<page, skew, zones, serverOffset, jar, users, nextUserId,
                   entries, nextId, req>>

----------------------------------------------------------------------------
(* POST /api/time/clock-in *)

\* a request arrives with its cookie and body.  STEP 1, STEP 2 and
\* STEP 2.5: the user lookup, then the timezone validation and the weekend
\* restriction.  Destructuring the body of a request that has none throws,
\* and the handler's catch answers 500
ClockInUser(r) ==
    /\ req[r].pc = "idle"
    /\ (nextId - 1) + ClockInsInFlight < MaxEntries
    /\ \E cookie \in jar, timezone \in zones :
       LET user == getCurrentUser(cookie)
       IN  IF user = NULL
             THEN sendError(r, "clock-in", user, timezone, 401, "Unauthenticated")
           ELSE IF timezone = NoBody
             THEN sendError(r, "clock-in", user, timezone, 500, "InternalError")
           ELSE IF timezone \in {Undefined, ""} \/ timezone = NotAString
             THEN sendError(r, "clock-in", user, timezone, 400, "InvalidInput")
           ELSE \E restrictionError \in checkWeekendRestriction(timezone, ServerNow) :
                  IF restrictionError # NoRestriction
                    THEN sendError(r, "clock-in", user, timezone, 400, "ClockInBlocked")
                    ELSE Continue(r, [Idle EXCEPT !.pc = "ci_open",
                                                  !.timezone = timezone,
                                                  !.user = user])
    /\ UNCHANGED <<page, clock, skew, zones, serverOffset, jar, users, nextUserId,
                   entries, nextId>>

\* STEP 3: SELECT the user's open entries
\* faulty variant: the open-entry check is skipped
ClockInOpenEntry_NoCheck(r) ==
    /\ req[r].pc = "ci_open"
    /\ Continue(r, [req[r] EXCEPT !.pc = "ci_insert"])
    /\ UNCHANGED <<page, clock, skew, zones, serverOffset, jar, users, nextUserId,
                   entries, nextId>>

ClockInOpenEntry(r) ==
    /\ req[r].pc = "ci_open"
    /\ IF OpenEntryIds(req[r].user) # {}
         THEN sendError(r, "clock-in", req[r].user, req[r].timezone, 400, "AlreadyClockedIn")
         ELSE Continue(r, [req[r] EXCEPT !.pc = "ci_insert"])
    /\ UNCHANGED <<page, clock, skew, zones, serverOffset, jar, users, nextUserId,
                   entries, nextId>>

\* the row the INSERT creates
InsertedEntry(user_id, start_time, timezone) ==
    [user_id |-> user_id, start_time |-> start_time, end_time |-> NULL,
     start_timezone |-> timezone]

\* start_timezone VARCHAR(100) NOT NULL
START_TIMEZONE_LENGTH == 100

\* STEP 4: INSERT the entry with start_time = NOW(); the store rejects a
\* row whose user is gone or whose timezone does not fit the column, and
\* the handler's catch answers 500
ClockInInsert(r) ==
    /\ req[r].pc = "ci_insert"
    /\ IF /\ req[r].user \in DOMAIN users
          /\ Len(req[r].timezone) <= START_TIMEZONE_LENGTH
         THEN /\ entries' = entries @@
                    (nextId :> InsertedEntry(req[r].user, clock, req[r].timezone))
              /\ nextId' = nextId + 1
              /\ sendJson(r, "clock-in", req[r].user, req[r].timezone, 201,
                          [id |-> nextId, start_time |-> clock,
                           timezone |-> req[r].timezone])
         ELSE /\ sendError(r, "clock-in", req[r].user, req[r].timezone, 500, "InternalError")
              /\ UNCHANGED <<entries, nextId>>
    /\ UNCHANGED <<page, clock, skew, zones, serverOffset, jar, users, nextUserId>>

----------------------------------------------------------------------------
(* POST /api/time/clock-out *)

MAX_SHIFT_HOURS == 15

\* request.body && request.body.auto === true
\* faulty variant: any truthy value of body.auto counts as the flag
isAuto_Truthy(auto) == auto # "absent"

isAuto(auto) == auto = "true"

\* a request arrives with its cookie and a body that carries one of the
\* values timezones as its timezone property ("": no such property).
\* STEP 1: the user lookup
ClockOutUserFrom(r, timezones) ==
    /\ req[r].pc = "idle"
    /\ \E cookie \in jar, auto \in AutoInputs, timezone \in timezones :
       LET user == getCurrentUser(cookie)
       IN  IF user = NULL
             THEN sendError(r, "clock-out", user, "", 401, "Unauthenticated")
             ELSE Continue(r, [Idle EXCEPT !.pc = "co_open",
                                           !.auto = auto,
                                           !.timezone = timezone,
                                           !.user = user])
    /\ UNCHANGED <<page, clock, skew, zones, serverOffset, jar, users, nextUserId,
                   entries, nextId>>

\* the browser's clock-out bodies are {} and {auto: true}
ClockOutUser(r) == ClockOutUserFrom(r, {""})

\* a client that sends a timezone with its clock-out, as with its clock-in
ClockOutUserWithTimezone(r) == ClockOutUserFrom(r, zones \ {""})

\* STEP 3: the end time, capped at MAX_SHIFT_HOURS after the start
\* faulty variant: the end time is never capped
ClockOutEndTime_Uncapped(startTime, now) == now

ClockOutEndTime(startTime, now) ==
    IF now - startTime > MAX_SHIFT_HOURS * Hour
      THEN startTime + MAX_SHIFT_HOURS * Hour
      ELSE now

\* STEP 2.5: the restriction messages a clock-out may see for the entry
\* faulty variant: the weekend restriction is applied whatever the auto flag
ClockOutRestriction_Always(auto, start_timezone, now) ==
    IF start_timezone # ""
      THEN checkWeekendRestriction(start_timezone, now)
      ELSE {NoRestriction}

ClockOutRestriction(auto, start_timezone, now) ==
    IF ~isAuto(auto) /\ start_timezone # ""
      THEN checkWeekendRestriction(start_timezone, now)
      ELSE {NoRestriction}

\* STEP 2, STEP 2.5 and STEP 3: SELECT the open entry (rows[0] of a query
\* with no ORDER BY), the weekend restriction, the end time
\* faulty variant: the weekend restriction is checked (in UTC) before the
\* open entry is looked up
ClockOutOpenEntry_BlackoutFirst(r) ==
    /\ req[r].pc = "co_open"
    /\ (LET rows == OpenEntryIds(req[r].user)
        IN  \E restrictionError \in
                 ClockOutRestriction(req[r].auto, "UTC", ServerNow) :
              IF restrictionError # NoRestriction
                THEN sendError(r, "clock-out", req[r].user, "", 400,
                               "ClockOutBlocked")
              ELSE IF rows = {}
                THEN sendError(r, "clock-out", req[r].user, "", 400,
                               "NotClockedIn")
              ELSE \E id \in rows :
                     Continue(r, [req[r] EXCEPT
                       !.pc = "co_update",
                       !.auto = "absent",
                       !.entry_id = id,
                       !.endTime =
                           ClockOutEndTime(entries[id].start_time, ServerNow)]))
    /\ UNCHANGED <<page, clock, skew, zones, serverOffset, jar, users, nextUserId,
                   entries, nextId>>

\* faulty variant: the weekend restriction is evaluated in the timezone of
\* the request body when it carries one
ClockOutOpenEntryOf_RequestZone(r, request) ==
    /\ req[r].pc = "co_open"
    /\ (LET rows == OpenEntryIds(request.user)
        IN  IF rows = {}
              THEN sendError(r, "clock-out", request.user, "", 400, "NotClockedIn")
              ELSE \E id \in rows :
                   \E restrictionError \in
                        ClockOutRestriction(request.auto,
                            IF request.timezone # "" THEN request.timezone
                            ELSE entries[id].start_timezone, ServerNow) :
                     IF restrictionError # NoRestriction
                       THEN sendError(r, "clock-out", request.user, "", 400,
                                      "ClockOutBlocked")
                       ELSE Continue(r, [request EXCEPT
                              !.pc = "co_update",
                              !.auto = "absent",
                              !.timezone = "",
                              !.entry_id = id,
                              !.endTime =
                                  ClockOutEndTime(entries[id].start_time, ServerNow)]))
    /\ UNCHANGED <<page, clock, skew, zones, serverOffset, jar, users, nextUserId,
                   entries, nextId>>

\* the step of handler r for the request record request; of the request,
\* the later steps read the user, the entry and the end time only
ClockOutOpenEntryOf(r, request) ==
    /\ req[r].pc = "co_open"
    /\ LET rows == OpenEntryIds(request.user)
       IN  IF rows = {}
             THEN sendError(r, "clock-out", request.user, "", 400, "NotClockedIn")
             ELSE \E id \in rows :
                  \E restrictionError \in
                       ClockOutRestriction(request.auto,
                                           entries[id].start_timezone, ServerNow) :
                    IF restrictionError # NoRestriction
                      THEN sendError(r, "clock-out", request.user, "", 400,
                                     "ClockOutBlocked")
                      ELSE Continue(r, [request EXCEPT
                             !.pc = "co_update",
                             !.auto = "absent",
                             !.timezone = "",
                             !.entry_id = id,
                             !.endTime =
                                 ClockOutEndTime(entries[id].start_time, ServerNow)])
    /\ UNCHANGED <<page, clock, skew, zones, serverOffset, jar, users, nextUserId,
                   entries, nextId>>

ClockOutOpenEntry(r) == ClockOutOpenEntryOf(r, req[r])

\* Math.round(hours * 100) / 100 of a duration given in minutes, as a count
\* of hundredths of an hour; Math.round rounds a half towards +Infinity
RoundedHours(minutes) == (10 * minutes + 3) \div 6

\* UPDATE time_entries SET end_time = endTime WHERE id = entry.id
\* faulty variant: the UPDATE has no WHERE clause
UpdateEndTime_NoWhere(id, endTime) ==
    [i \in DOMAIN entries |-> [entries[i] EXCEPT !.end_time = endTime]]

UpdateEndTime(id, endTime) ==
    IF id \in DOMAIN entries
      THEN [entries EXCEPT ![id].end_time = endTime]
      ELSE entries

\* STEP 4: the UPDATE and the response
ClockOutUpdate(r) ==
    /\ req[r].pc = "co_update"
    /\ entries' = UpdateEndTime(req[r].entry_id, req[r].endTime)
    /\ IF req[r].entry_id \in DOMAIN entries
         THEN LET updatedEntry == entries'[req[r].entry_id]
              IN  sendJson(r, "clock-out", req[r].user, "", 200,
                      [id |-> req[r].entry_id,
                       start_time |-> updatedEntry.start_time,
                       end_time |-> updatedEntry.end_time,
                       duration_hours |->
                           RoundedHours(updatedEntry.end_time
                                          - updatedEntry.start_time)])
         ELSE sendError(r, "clock-out", req[r].user, "", 500, "InternalError")
    /\ UNCHANGED <<page, clock, skew, zones, serverOffset, jar, users, nextUserId,
                   nextId>>

----------------------------------------------------------------------------
(* GET /api/time/status *)

\* faulty variant: the status handler's limit drifts from the clock-out one
STATUS_MAX_SHIFT_HOURS_Drifted == 15 + 1

STATUS_MAX_SHIFT_HOURS == 15

\* a request arrives with its cookie.  STEP 1: the user lookup
StatusUser(r) ==
    /\ req[r].pc = "idle"
    /\ \E cookie \in jar :
       LET user == getCurrentUser(cookie)
       IN  IF user = NULL
             THEN sendError(r, "status", user, "", 401, "Unauthenticated")
             ELSE Continue(r, [Idle EXCEPT !.pc = "st_open", !.user = user])
    /\ UNCHANGED <<page, clock, skew, zones, serverOffset, jar, users, nextUserId,
                   entries, nextId>>

\* elapsedHours >= MAX_SHIFT_HOURS
\* faulty variant: a status read closes whatever open entry it finds
AutoTimedOut_AnyOpen(startTime, now) == TRUE

\* faulty variant: an entry of exactly 15 hours has not timed out yet
AutoTimedOut_Strict(startTime, now) ==
    now - startTime > STATUS_MAX_SHIFT_HOURS * Hour

AutoTimedOut(startTime, now) ==
    now - startTime >= STATUS_MAX_SHIFT_HOURS * Hour

\* end_time of the auto clock-out: 15 hours after the start
\* faulty variant: the auto clock-out ends the entry at the time of the read
AutoTimeoutEndTime_AtRead(startTime) == ServerNow

AutoTimeoutEndTime(startTime) == startTime + STATUS_MAX_SHIFT_HOURS * Hour

\* the current_session of the response
CurrentSession(id, now) ==
    [id |-> id,
     start_time |-> entries[id].start_time,
     timezone |-> entries[id].start_timezone,
     elapsed_seconds |-> (now - entries[id].start_time) * 60]

\* new Date().getFullYear(): the year in the server's local time zone, for
\* instants in 1970 and 1971
getFullYear(now) == 1970 + ((now + serverOffset) \div (365 * Day))

\* STEP 2: the open entry, its auto-timeout check, and the year read for
\* STEP 3
StatusOpenEntry(r) ==
    /\ req[r].pc = "st_open"
    /\ LET rows == OpenEntryIds(req[r].user)
       IN  IF rows = {}
             THEN Continue(r, [req[r] EXCEPT
                    !.pc = "st_total",
                    !.currentYear = getFullYear(ServerNow)])
             ELSE \E id \in rows :
                    IF AutoTimedOut(entries[id].start_time, ServerNow)
                      THEN Continue(r, [req[r] EXCEPT
                             !.pc = "st_update",
                             !.entry_id = id,
                             !.endTime =
                                 AutoTimeoutEndTime(entries[id].start_time)])
                      ELSE Continue(r, [req[r] EXCEPT
                             !.pc = "st_total",
                             !.isWorking = TRUE,
                             !.currentSession =
                                 <<CurrentSession(id, ServerNow)>>,
                             !.currentYear = getFullYear(ServerNow)])
    /\ UNCHANGED <<page, clock, skew, zones, serverOffset, jar, users, nextUserId,
                   entries, nextId>>

\* the auto clock-out: UPDATE ... SET end_time WHERE id = entry.id
StatusUpdate(r) ==
    /\ req[r].pc = "st_update"
    /\ entries' = UpdateEndTime(req[r].entry_id, req[r].endTime)
    /\ Continue(r, [req[r] EXCEPT !.pc = "st_total", !.endTime = NULL,
                                  !.isWorking = FALSE,
                                  !.currentSession = <<>>,
                                  !.currentYear = getFullYear(ServerNow)])
    /\ UNCHANGED <<page, clock, skew, zones, serverOffset, jar, users, nextUserId,
                   nextId>>

\* `${year}-01-01T00:00:00Z`, for the years 1970 to 1972
YearStart(year) == (year - 1970) * 365 * Day

\* SUM(end_time - start_time) over the rows ids, in minutes
RECURSIVE SumHours(_)
SumHours(ids) ==
    IF ids = {} THEN 0
    ELSE LET id == CHOOSE i \in ids : TRUE
         IN  (entries[id].end_time - entries[id].start_time)
               + SumHours(ids \ {id})

\* STEP 3: the time of the user's completed sessions started in the year
\* faulty variant: the sessions are selected by the year of their end
YearTotalHours_ByEnd(user_id, currentYear) ==
    SumHours({id \in DOMAIN entries :
                /\ entries[id].user_id = user_id
                /\ entries[id].end_time # NULL
                /\ entries[id].end_time >= YearStart(currentYear)
                /\ entries[id].end_time < YearStart(currentYear + 1)})

\* faulty variant: a session still open counts with the 15-hour limit
YearTotalHours_WithOpen(user_id, currentYear) ==
    SumHours({id \in DOMAIN entries :
                /\ entries[id].user_id = user_id
                /\ entries[id].end_time # NULL
                /\ entries[id].start_time >= YearStart(currentYear)
                /\ entries[id].start_time < YearStart(currentYear + 1)})
      + STATUS_MAX_SHIFT_HOURS * Hour
          * Cardinality({id \in DOMAIN entries :
                /\ entries[id].user_id = user_id
                /\ entries[id].end_time = NULL
                /\ entries[id].start_time >= YearStart(currentYear)
                /\ entries[id].start_time < YearStart(currentYear + 1)})

YearTotalHours(user_id, currentYear) ==
    SumHours({id \in DOMAIN entries :
                /\ entries[id].user_id = user_id
                /\ entries[id].end_time # NULL
                /\ entries[id].start_time >= YearStart(currentYear)
                /\ entries[id].start_time < YearStart(currentYear + 1)})

StatusTotal(r) ==
    /\ req[r].pc = "st_total"
    /\ sendJson(r, "status", req[r].user, "", 200,
          [is_working |-> req[r].isWorking,
           current_session |-> req[r].currentSession,
           year_total_hours |->
               RoundedHours(YearTotalHours(req[r].user, req[r].currentYear))])
    /\ UNCHANGED <<page, clock, skew, zones, serverOffset, jar, users, nextUserId,
                   entries, nextId>>

----------------------------------------------------------------------------
(* GET /api/time/heatmap *)

\* a request arrives with its cookie.  STEP 1 and STEP 2: the user lookup
\* and the current year
HeatmapUser(r) ==
    /\ req[r].pc = "idle"
    /\ \E cookie \in jar :
       LET user == getCurrentUser(cookie)
       IN  IF user = NULL
             THEN sendError(r, "heatmap", user, "", 401, "Unauthenticated")
             ELSE Continue(r, [Idle EXCEPT !.pc = "hm_days",
                                           !.user = user,
                                           !.currentYear = getFullYear(ServerNow)])
    /\ UNCHANGED <<page, clock, skew, zones, serverOffset, jar, users, nextUserId,
                   entries, nextId>>

\* DATE(start_time), in the time zone of the database session (UTC), as the
\* number of the day since 1970-01-01
DATE(start_time) == start_time \div Day

\* the rows the daily query groups: the user's completed sessions started
\* in the year
\* faulty variant: the daily query selects the sessions by the year of
\* their end
CompletedInYear_ByEnd(user_id, currentYear) ==
    {id \in DOMAIN entries :
        /\ entries[id].user_id = user_id
        /\ entries[id].end_time # NULL
        /\ entries[id].end_time >= YearStart(currentYear)
        /\ entries[id].end_time < YearStart(currentYear + 1)}

CompletedInYear(user_id, currentYear) ==
    {id \in DOMAIN entries :
        /\ entries[id].user_id = user_id
        /\ entries[id].end_time # NULL
        /\ entries[id].start_time >= YearStart(currentYear)
        /\ entries[id].start_time < YearStart(currentYear + 1)}

\* the work_date values of the result rows (GROUP BY DATE(start_time))
WorkDates(user_id, currentYear) ==
    {DATE(entries[id].start_time) : id \in CompletedInYear(user_id, currentYear)}

\* SUM(end_time - start_time) of the group of work_date, in minutes
TotalHours(user_id, currentYear, work_date) ==
    SumHours({id \in CompletedInYear(user_id, currentYear) :
                 DATE(entries[id].start_time) = work_date})

\* row.work_date as the driver hands it over: a Date at midnight of the day
\* in the server's local time zone
ParsedDate(work_date) == work_date * Day - serverOffset

\* date.toISOString().split('T')[0]: the UTC calendar day of an instant, as
\* the number of the day since 1970-01-01
toISODate(date) == date \div Day

\* new Date(row.work_date) formatted as YYYY-MM-DD
DateString(work_date) == toISODate(ParsedDate(work_date))

\* STEP 4: the object keyed by date
HeatmapDaysOf(user_id, currentYear) ==
    [dateString \in {DateString(d) : d \in WorkDates(user_id, currentYear)} |->
        RoundedHours(TotalHours(user_id, currentYear,
            CHOOSE d \in WorkDates(user_id, currentYear) :
                DateString(d) = dateString))]

\* STEP 3 and STEP 4: the daily totals and the response
HeatmapDays(r) ==
    /\ req[r].pc = "hm_days"
    /\ sendJson(r, "heatmap", req[r].user, "", 200,
          [year |-> req[r].currentYear,
           days |-> HeatmapDaysOf(req[r].user, req[r].currentYear)])
    /\ UNCHANGED <<page, clock, skew, zones, serverOffset, jar, users, nextUserId,
                   entries, nextId>>

----------------------------------------------------------------------------
(* Accounts: register, login, logout, delete account *)

\* the email and password values of the register and login bodies: those
\* of user 1, a missing email, no body at all, a password too short
EmailInputs == {Emails[1], "", NoBody}

PasswordInputs == {Passwords[1], "pw"}

\* the session tokens that exist: those held by a client or by a user row
IssuedTokens ==
    ((jar \cup {users[u].session_token : u \in DOMAIN users}) \ {NULL})

\* tokens are numbered in the order in which they are generated
LastToken ==
    CHOOSE t \in IssuedTokens \cup {0} : \A s \in IssuedTokens : s <= t

\* uuidv4(): a token that differs from every token that exists
uuidv4 == LastToken + 1

UsersByEmail(email) == {u \in DOMAIN users : users[u].email = email}

\* handlers in flight that will generate a session token, or insert a user
TokensInFlight ==
    Cardinality({r \in RequestIds : req[r].pc \in {"rg_insert", "li_update"}})

RegistersInFlight ==
    Cardinality({r \in RequestIds : req[r].pc = "rg_insert"})

\* POST /api/auth/register.  STEP 1 to STEP 4: the body, its validation, the
\* SELECT of the email, and the hash of the password
RegisterUser(r) ==
    /\ req[r].pc = "idle"
    /\ (nextUserId - 1) + RegistersInFlight < MaxUsers
    /\ LastToken + TokensInFlight < MaxSessions
    /\ \E email \in EmailInputs, password \in PasswordInputs :
         IF email = NoBody
           THEN sendError(r, "register", NULL, "", 500, "InternalError")
         ELSE IF email = "" \/ Len(password) < 8
           THEN sendError(r, "register", NULL, "", 400, "InvalidInput")
         ELSE IF UsersByEmail(email) # {}
           THEN sendError(r, "register", NULL, "", 400, "EmailExists")
         ELSE Continue(r, [Idle EXCEPT !.pc = "rg_insert",
                                       !.email = email,
                                       !.passwordHash = bcryptHash(password)])
    /\ UNCHANGED <<page, clock, skew, zones, serverOffset, jar, users, nextUserId,
                   entries, nextId>>

\* STEP 5 to STEP 7: the session token, the INSERT (the sequence hands out
\* the id even when the UNIQUE constraint on email rejects the row) and the
\* Set-Cookie header of the response
RegisterInsert(r) ==
    /\ req[r].pc = "rg_insert"
    /\ nextUserId' = nextUserId + 1
    /\ IF UsersByEmail(req[r].email) = {}
         THEN /\ users' = users @@
                    (nextUserId :> [email |-> req[r].email,
                                    password_hash |-> req[r].passwordHash,
                                    session_token |-> uuidv4])
              /\ jar' = jar \cup {uuidv4}
              /\ sendJson(r, "register", nextUserId, "", 201,
                          [id |-> nextUserId, email |-> req[r].email,
                           cookie |-> uuidv4])
         ELSE /\ sendError(r, "register", NULL, "", 500, "InternalError")
              /\ UNCHANGED <<jar, users>>
    /\ UNCHANGED <<page, clock, skew, zones, serverOffset, entries, nextId>>

\* POST /api/auth/login.  STEP 1 to STEP 3: the body, the SELECT of the user
\* by email and the comparison of the password with the stored hash
LoginUser(r) ==
    /\ req[r].pc = "idle"
    /\ LastToken + TokensInFlight < MaxSessions
    /\ \E email \in EmailInputs, password \in PasswordInputs :
         IF email = NoBody
           THEN sendError(r, "login", NULL, "", 500, "InternalError")
         ELSE IF email = ""
           THEN sendError(r, "login", NULL, "", 400, "InvalidInput")
         ELSE IF UsersByEmail(email) = {}
           THEN sendError(r, "login", NULL, "", 401, "InvalidCredentials")
         ELSE LET user == CHOOSE u \in UsersByEmail(email) : TRUE
              IN  IF ~bcryptCompare(password, users[user].password_hash)
                    THEN sendError(r, "login", NULL, "", 401,
                                   "InvalidCredentials")
                    ELSE Continue(r, [Idle EXCEPT !.pc = "li_update",
                                                  !.user = user,
                                                  !.email = email])
    /\ UNCHANGED <<page, clock, skew, zones, serverOffset, jar, users, nextUserId,
                   entries, nextId>>

\* UPDATE users SET session_token WHERE id = user.id
\* faulty variant: the token of a login is kept beside the previous one,
\* which stays valid (the row keeps the token it has)
SetSessionToken_KeepFirst(id, sessionToken) ==
    IF id \in DOMAIN users /\ users[id].session_token = NULL
      THEN [users EXCEPT ![id].session_token = sessionToken]
      ELSE users

SetSessionToken(id, sessionToken) ==
    IF id \in DOMAIN users
      THEN [users EXCEPT ![id].session_token = sessionToken]
      ELSE users

\* STEP 4 and STEP 5: the new session token, the UPDATE, and the Set-Cookie
\* header of the response
LoginUpdate(r) ==
    /\ req[r].pc = "li_update"
    /\ users' = SetSessionToken(req[r].user, uuidv4)
    /\ jar' = jar \cup {uuidv4}
    /\ sendJson(r, "login", req[r].user, "", 200,
                [id |-> req[r].user, email |-> req[r].email,
                 cookie |-> uuidv4])
    /\ UNCHANGED <<page, clock, skew, zones, serverOffset, nextUserId, entries, nextId>>

\* POST /api/auth/logout.  STEP 1: the user lookup; without a user the
\* handler answers at once
LogoutUser(r) ==
    /\ req[r].pc = "idle"
    /\ \E cookie \in jar :
       LET user == getCurrentUser(cookie)
       IN  IF user = NULL
             THEN sendJson(r, "logout", user, "", 200, [success |-> TRUE])
             ELSE Continue(r, [Idle EXCEPT !.pc = "lo_update", !.user = user])
    /\ UNCHANGED <<page, clock, skew, zones, serverOffset, jar, users, nextUserId,
                   entries, nextId>>

\* STEP 2 and STEP 3: UPDATE users SET session_token = NULL, the response
LogoutUpdate(r) ==
    /\ req[r].pc = "lo_update"
    /\ users' = SetSessionToken(req[r].user, NULL)
    /\ sendJson(r, "logout", req[r].user, "", 200, [success |-> TRUE])
    /\ UNCHANGED <<page, clock, skew, zones, serverOffset, jar, nextUserId, entries,
                   nextId>>

\* DELETE /api/account/delete.  STEP 1: the user lookup
DeleteUser(r) ==
    /\ req[r].pc = "idle"
    /\ \E cookie \in jar :
       LET user == getCurrentUser(cookie)
       IN  IF user = NULL
             THEN sendError(r, "delete", user, "", 401, "Unauthenticated")
             ELSE Continue(r, [Idle EXCEPT !.pc = "da_delete", !.user = user])
    /\ UNCHANGED <<page, clock, skew, zones, serverOffset, jar, users, nextUserId,
                   entries, nextId>>

\* user_id ... REFERENCES users(id) ON DELETE CASCADE: the rows of
\* time_entries that remain when the user row is deleted
\* faulty variant: the reference does not cascade
CascadeDelete_None(user_id) == entries

CascadeDelete(user_id) ==
    [id \in {i \in DOMAIN entries : entries[i].user_id # user_id} |-> entries[id]]

\* STEP 2 and STEP 3: DELETE FROM users WHERE id = user.id, the response
DeleteAccount(r) ==
    /\ req[r].pc = "da_delete"
    /\ users' = [u \in DOMAIN users \ {req[r].user} |-> users[u]]
    /\ entries' = CascadeDelete(req[r].user)
    /\ sendJson(r, "delete", req[r].user, "", 200, [success |-> TRUE])
    /\ UNCHANGED <<page, clock, skew, zones, serverOffset, jar, nextUserId, nextId>>

----------------------------------------------------------------------------

Next ==
    \/ Tick
    \/ \E r \in RequestIds :
         \/ ClockInUser(r)
         \/ ClockInOpenEntry(r)
         \/ ClockInInsert(r)
         \/ ClockOutUser(r)
         \/ ClockOutOpenEntry(r)
         \/ ClockOutUpdate(r)
         \/ StatusUser(r)
         \/ StatusOpenEntry(r)
         \/ StatusUpdate(r)
         \/ StatusTotal(r)

Spec == Init /\ [][Next]_vars

SpecSkew == InitSkew /\ [][Next]_vars

\* the same handlers serving clients that send any timezone value
InitZones ==
    /\ InitStore
    /\ skew = 0
    /\ zones = AnyTimezoneInputs
    /\ serverOffset = 0

SpecZones == InitZones /\ [][Next]_vars

\* the totals over stores of sessions around the turn of the year 1971.
\* The instants at which the totals are read: Fri 1971-01-01 02:00Z and
\* Sat 1971-01-02 16:00Z
ReadInstants == {YearStart(1971) + 2 * Hour, YearStart(1971) + 40 * Hour}

\* local time zones of the server process: UTC-5, UTC, UTC+1
ServerOffsets == {-5 * Hour, 0, Hour}

\* starts of the sessions: Thu 1970-12-31 22:30Z, Fri 1971-01-01 00:00Z and
\* 23:30Z; their durations: 1 minute, 1 hour 15 minutes, 3 hours
StartTimes ==
    {YearStart(1971) - 90, YearStart(1971), YearStart(1971) + 23 * Hour + 30}

Durations == {1, Hour + 15, 3 * Hour}

\* the rows that sessions of the users leave in time_entries up to now
SessionRows(now) ==
    {row \in [user_id : UserIds,
              start_time : {t \in StartTimes : t <= now},
              end_time : {NULL} \cup {t + d : t \in StartTimes, d \in Durations},
              start_timezone : {"UTC"}] :
        \/ row.end_time = NULL
        \/ /\ row.end_time - row.start_time \in Durations
           /\ row.end_time <= now}

\* the store after the users' sessions, one after the other: ids follow the
\* start times, and a user starts a session only after the previous one
\* has ended
SessionStores(now) ==
    {store \in UNION {[1 .. n -> SessionRows(now)] : n \in 0 .. MaxEntries} :
        \A i, j \in DOMAIN store :
            i < j =>
                /\ store[i].start_time <= store[j].start_time
                /\ store[i].user_id = store[j].user_id =>
                      /\ store[i].end_time # NULL
                      /\ store[i].end_time <= store[j].start_time}

InitReads ==
    /\ clock \in ReadInstants
    /\ skew = 0
    /\ zones = TimezoneInputs
    /\ serverOffset \in ServerOffsets
    /\ InitUsers
    /\ entries \in SessionStores(clock)
    /\ nextId = Len(entries) + 1
    /\ req = [r \in RequestIds |-> Idle]
    /\ sent = NoResponse
    /\ page = NoPage

NextReads ==
    \E r \in RequestIds :
      \/ StatusUser(r)
      \/ StatusOpenEntry(r)
      \/ StatusUpdate(r)
      \/ StatusTotal(r)
      \/ HeatmapUser(r)
      \/ HeatmapDays(r)

SpecReads == InitReads /\ [][NextReads]_vars

\* the totals over stores of sessions on several days: starts on Thu
\* 1970-12-31 22:30Z, Fri 1971-01-01 01:00Z and Sat 1971-01-02 01:00Z, read
\* on Sat 1971-01-02 16:00Z
DayStartTimes ==
    {YearStart(1971) - 90, YearStart(1971) + Hour, YearStart(1971) + 25 * Hour}

DayRows(now) ==
    {row \in [user_id : UserIds,
              start_time : {t \in DayStartTimes : t <= now},
              end_time : {NULL} \cup {t + d : t \in DayStartTimes, d \in Durations},
              start_timezone : {"UTC"}] :
        \/ row.end_time = NULL
        \/ /\ row.end_time - row.start_time \in Durations
           /\ row.end_time <= now}

\* ids follow the start times, and a user starts a session only after the
\* previous one has ended
DayStores(now) ==
    {store \in UNION {[1 .. n -> DayRows(now)] : n \in 0 .. MaxEntries} :
        \A i, j \in DOMAIN store :
            i < j =>
                /\ store[i].start_time <= store[j].start_time
                /\ store[i].user_id = store[j].user_id =>
                      /\ store[i].end_time # NULL
                      /\ store[i].end_time <= store[j].start_time}

InitTotals ==
    /\ clock = YearStart(1971) + 40 * Hour
    /\ skew = 0
    /\ zones = TimezoneInputs
    /\ serverOffset \in {0, Hour}
    /\ InitUsers
    /\ entries \in DayStores(clock)
    /\ nextId = Len(entries) + 1
    /\ req = [r \in RequestIds |-> Idle]
    /\ sent = NoResponse
    /\ page = NoPage

SpecTotals == InitTotals /\ [][NextReads]_vars

\* the weekend restriction over a whole week: the clock-in and clock-out
\* handlers serving requests at one instant of the week
InitWeek ==
    /\ clock \in WeekInstants
    /\ EmptyStore
    /\ InitEnv

NextWeek ==
    \E r \in RequestIds :
      \/ ClockInUser(r)
      \/ ClockInOpenEntry(r)
      \/ ClockInInsert(r)
      \/ ClockOutUser(r)
      \/ ClockOutOpenEntry(r)
      \/ ClockOutUpdate(r)

SpecWeek == InitWeek /\ [][NextWeek]_vars

\* clock-in and clock-out serving, at one of the observed instants, clients
\* that send a timezone with their clock-out requests too
InitTimezones ==
    /\ clock \in Instants
    /\ EmptyStore
    /\ InitEnv

NextTimezones ==
    \E r \in RequestIds :
      \/ ClockInUser(r)
      \/ ClockInOpenEntry(r)
      \/ ClockInInsert(r)
      \/ ClockOutUser(r)
      \/ ClockOutUserWithTimezone(r)
      \/ ClockOutOpenEntry(r)
      \/ ClockOutUpdate(r)

SpecTimezones == InitTimezones /\ [][NextTimezones]_vars

\* the accounts and the time entries together: every handler, serving
\* clients in New York at one instant (Sat 1971-01-02 18:00Z), over a store
\* that is empty or holds the session that user 1 started 15 hours earlier
\* and left open
InitAccounts ==
    /\ clock = 8802 * Hour
    /\ InitUsers
    /\ entries \in {<<>>, <<InsertedEntry(1, 8787 * Hour, "UTC")>>}
    /\ nextId = Len(entries) + 1
    /\ req = [r \in RequestIds |-> Idle]
    /\ sent = NoResponse
    /\ page = NoPage
    /\ skew = 0
    /\ zones = {"America/New_York"}
    /\ serverOffset = 0

NextAccounts ==
    \E r \in RequestIds :
      \/ RegisterUser(r)
      \/ RegisterInsert(r)
      \/ LoginUser(r)
      \/ LoginUpdate(r)
      \/ LogoutUser(r)
      \/ LogoutUpdate(r)
      \/ DeleteUser(r)
      \/ DeleteAccount(r)
      \/ ClockInUser(r)
      \/ ClockInOpenEntry(r)
      \/ ClockInInsert(r)
      \/ ClockOutUser(r)
      \/ ClockOutOpenEntry(r)
      \/ ClockOutUpdate(r)
      \/ StatusUser(r)
      \/ StatusOpenEntry(r)
      \/ StatusUpdate(r)
      \/ StatusTotal(r)
      \/ HeatmapUser(r)
      \/ HeatmapDays(r)

SpecAccounts == InitAccounts /\ [][NextAccounts]_vars

\* two users with a session cookie each, on Sat 1971-01-02 18:00Z (13:00 in
\* New York): user 2 may have a session open for 15 hours or a closed one of
\* 3 hours, user 1 may have a session open for 7 hours
PeerStores ==
    LET open2 == InsertedEntry(2, 8787 * Hour, "UTC")
        closed2 == [open2 EXCEPT !.end_time = 8790 * Hour]
        open1 == InsertedEntry(1, 8795 * Hour, "UTC")
    IN  {<<>>, <<open2>>, <<closed2>>, <<open2, open1>>, <<closed2, open1>>}

InitPeers ==
    /\ clock = 8802 * Hour
    /\ skew = 0
    /\ zones = {"America/New_York"}
    /\ serverOffset = 0
    /\ users = [u \in UserIds |->
                  [email |-> Emails[u],
                   password_hash |-> bcryptHash(Passwords[u]),
                   session_token |-> u]]
    /\ nextUserId = Cardinality(UserIds) + 1
    /\ jar = UserIds
    /\ entries \in PeerStores
    /\ nextId = Len(entries) + 1
    /\ req = [r \in RequestIds |-> Idle]
    /\ sent = NoResponse
    /\ page = NoPage

NextPeers ==
    \E r \in RequestIds :
      \/ ClockInUser(r)
      \/ ClockInOpenEntry(r)
      \/ ClockInInsert(r)
      \/ ClockOutUser(r)
      \/ ClockOutOpenEntry(r)
      \/ ClockOutUpdate(r)
      \/ StatusUser(r)
      \/ StatusOpenEntry(r)
      \/ StatusUpdate(r)
      \/ StatusTotal(r)

SpecPeers == InitPeers /\ [][NextPeers]_vars

----------------------------------------------------------------------------
(* The punch clock page (app.js) *)

\* page holds the globals of the script and the parts of the document it
\* sets; page.fetches[r] names the function that awaits the response of
\* request r.  The browser's clock shows the instant clock, and its time
\* zone is the one its clock-in sends
browserTimeZone == CHOOSE timezone \in zones : TRUE

\* the new Date() of the page, getDay() and getHours() in local time
\* faulty variant: the Saturday rule starts after the 18:00 hour
isRestrictedTime_After18 ==
    \/ LocalWeekday(browserTimeZone, clock) = "Sun"
    \/ /\ LocalWeekday(browserTimeZone, clock) = "Sat"
       /\ LocalHour(browserTimeZone, clock) > 18

isRestrictedTime ==
    \/ LocalWeekday(browserTimeZone, clock) = "Sun"
    \/ /\ LocalWeekday(browserTimeZone, clock) = "Sat"
       /\ LocalHour(browserTimeZone, clock) >= 18

getRestrictionMessage ==
    IF LocalWeekday(browserTimeZone, clock) = "Sun" THEN SundayMessage
    ELSE IF LocalWeekday(browserTimeZone, clock) = "Sat" THEN SaturdayMessage
    ELSE ""

\* the document as loaded: the script has set nothing yet, and whether the
\* markup disables the punch button is not given by the script
Documents ==
    {[isWorking |-> FALSE, sessionStartTime |-> NULL, elapsedTimer |-> FALSE,
      statusText |-> "", punchButtonText |-> "", punchDisabled |-> disabled,
      fetches |-> [r \in RequestIds |-> "none"]] : disabled \in BOOLEAN}

showWorkingState(document) ==
    [document EXCEPT !.statusText = "Currently Working",
                     !.punchButtonText = "Clock Out"]

showNotWorkingState(document, restricted) ==
    IF restricted
      THEN [document EXCEPT !.statusText = getRestrictionMessage,
                            !.punchButtonText = "Clock In",
                            !.punchDisabled = TRUE]
      ELSE [document EXCEPT !.statusText = "Not Working",
                            !.punchButtonText = "Clock In"]

\* setInterval after a clearInterval of the timer that ran
startElapsedTimer(document) == [document EXCEPT !.elapsedTimer = TRUE]

stopElapsedTimer(document) == [document EXCEPT !.elapsedTimer = FALSE]

\* the auto property of the body a function of the page sends to clock-out
ClockOutBody(call) == IF call = "autoClockOut" THEN "true" ELSE "absent"

\* a fetch of the page has not reached the server yet: the request is the
\* next to arrive
Fetching(r) ==
    /\ page.fetches[r] # "none"
    /\ req[r].pc = "idle"
    /\ sent.kind = "none"

\* the response to a fetch of the page has just been sent: the function
\* that awaits it is the next to run (responses arrive in the order the
\* server sends them)
Responded(r) ==
    /\ page.fetches[r] # "none"
    /\ req[r].pc = "idle"
    /\ sent.kind # "none"

\* neither a request nor a response of the page is on its way
Settled == \A r \in RequestIds : ~Fetching(r) /\ ~Responded(r)

\* the page changes, the server does not; the response is consumed
PageStep(document) ==
    /\ page' = document
    /\ sent' = NoResponse
    /\ UNCHANGED <<clock, skew, zones, serverOffset, jar, users, nextUserId,
                   entries, nextId, req>>

\* DOMContentLoaded, again on a reload: checkAuth finds the user of the
\* cookie and calls loadStatus, which fetches the status; the functions of
\* the page before are gone with it
PageLoad(r) ==
    /\ Settled
    /\ req[r].pc = "idle"
    /\ \E document \in Documents :
          PageStep([document EXCEPT !.fetches[r] = "loadStatus"])

\* a click on the enabled punch button
PunchClick(r) ==
    /\ Settled
    /\ ~page.punchDisabled
    /\ ~isRestrictedTime
    /\ req[r].pc = "idle"
    /\ page.fetches[r] = "none"
    /\ PageStep([page EXCEPT
          !.punchDisabled = TRUE,
          !.fetches[r] = IF page.isWorking THEN "clockOut" ELSE "clockIn"])

\* the requests of the page reach the server
PageStatusRequest(r) ==
    /\ Fetching(r)
    /\ page.fetches[r] = "loadStatus"
    /\ StatusUser(r)

PageClockInRequest(r) ==
    /\ Fetching(r)
    /\ page.fetches[r] = "clockIn"
    /\ ClockInUser(r)

PageClockOutRequest(r) ==
    /\ Fetching(r)
    /\ page.fetches[r] \in {"clockOut", "autoClockOut"}
    /\ ClockOutUser(r)
    /\ req'[r].pc = "co_open" => req'[r].auto = ClockOutBody(page.fetches[r])

\* loadStatus after its fetch: a response that is no status object leaves
\* data.is_working undefined
loadStatus(r) ==
    /\ Responded(r)
    /\ page.fetches[r] = "loadStatus"
    /\ LET data == IF sent.status = 200 THEN sent.body[1]
                   ELSE [is_working |-> FALSE, current_session |-> <<>>]
           restricted == isRestrictedTime
           document == [page EXCEPT !.isWorking = data.is_working,
                                    !.fetches[r] = "none"]
       IN  IF data.is_working /\ data.current_session # <<>>
             THEN IF restricted
                    THEN PageStep([document EXCEPT
                                     !.fetches[r] = "autoClockOut"])
                    ELSE PageStep(
                           [startElapsedTimer(showWorkingState(
                              [document EXCEPT !.sessionStartTime =
                                  data.current_session[1].start_time]))
                            EXCEPT !.punchDisabled = restricted])
             ELSE PageStep([showNotWorkingState(document, restricted)
                            EXCEPT !.punchDisabled = restricted])

\* autoClockOut after its fetch, and the return of loadStatus
autoClockOut(r) ==
    /\ Responded(r)
    /\ page.fetches[r] = "autoClockOut"
    /\ LET document == [page EXCEPT !.fetches[r] = "none"]
       IN  IF sent.status \in 200 .. 299
             THEN PageStep(stopElapsedTimer(showNotWorkingState(
                    [document EXCEPT !.isWorking = FALSE,
                                     !.sessionStartTime = NULL], TRUE)))
             ELSE PageStep(document)

\* clockIn after its fetch, and the end of the click listener
clockIn(r) ==
    /\ Responded(r)
    /\ page.fetches[r] = "clockIn"
    /\ LET document == [page EXCEPT !.fetches[r] = "none",
                                    !.punchDisabled = FALSE]
       IN  IF sent.status \in 200 .. 299
             THEN PageStep(startElapsedTimer(showWorkingState(
                    [document EXCEPT !.isWorking = TRUE,
                                     !.sessionStartTime =
                                         sent.body[1].start_time])))
             ELSE PageStep(document)

\* clockOut after its fetch, its call of loadStatus, and the end of the
\* click listener
clockOut(r) ==
    /\ Responded(r)
    /\ page.fetches[r] = "clockOut"
    /\ LET document == [page EXCEPT !.fetches[r] = "none",
                                    !.punchDisabled = FALSE]
       IN  IF sent.status \in 200 .. 299
             THEN PageStep([stopElapsedTimer(showNotWorkingState(
                    [document EXCEPT !.isWorking = FALSE,
                                     !.sessionStartTime = NULL], FALSE))
                            EXCEPT !.fetches[r] = "loadStatus"])
             ELSE PageStep(document)

\* the page of user 1 in the time zone UTC, loaded on Sat 1971-01-02 at
\* 11:00Z with no session or with one open since 06:00Z; the blackout
\* begins at 18:00Z
InitPage ==
    /\ clock = 8795 * Hour
    /\ skew = 0
    /\ zones = {"UTC"}
    /\ serverOffset = 0
    /\ users = [u \in UserIds |->
                  [email |-> Emails[u],
                   password_hash |-> bcryptHash(Passwords[u]),
                   session_token |-> u]]
    /\ nextUserId = Cardinality(UserIds) + 1
    /\ jar = {1}
    /\ entries \in {<<>>, <<InsertedEntry(1, 8790 * Hour, "UTC")>>}
    /\ nextId = Len(entries) + 1
    /\ req = [r \in RequestIds |-> Idle]
    /\ sent = NoResponse
    /\ page \in {[document EXCEPT !.fetches[1] = "loadStatus"] :
                    document \in Documents}

NextPage ==
    \/ Settled /\ Tick
    \/ \E r \in RequestIds :
         \/ PageLoad(r)
         \/ PunchClick(r)
         \/ PageStatusRequest(r)
         \/ PageClockInRequest(r)
         \/ PageClockOutRequest(r)
         \/ loadStatus(r)
         \/ autoClockOut(r)
         \/ clockIn(r)
         \/ clockOut(r)
         \/ Settled /\ ClockInOpenEntry(r)
         \/ Settled /\ ClockInInsert(r)
         \/ Settled /\ ClockOutOpenEntry(r)
         \/ Settled /\ ClockOutUpdate(r)
         \/ Settled /\ StatusOpenEntry(r)
         \/ Settled /\ StatusUpdate(r)
         \/ Settled /\ StatusTotal(r)

SpecPage == InitPage /\ [][NextPage]_vars

----------------------------------------------------------------------------
(* Properties *)

ClosedEntryIds == {id \in DOMAIN entries : entries[id].end_time # NULL}

\* the blackout rule as the session rules state it: in the local time of a
\* valid timezone, all of Sunday and Saturday from 18:00 on
RestrictedInstant(timezone, now) ==
    /\ timezone \in ValidTimezones
    /\ LET local == now + TzOffset(timezone)
           dayOfWeek == ((local \div (24 * 60)) + 4) % 7
       IN  \/ dayOfWeek = 0
           \/ dayOfWeek = 6 /\ local % (24 * 60) >= 18 * 60

\* hundredths is the duration of minutes minutes in hours, rounded to two
\* decimals (a half rounds up), as a count of hundredths of an hour
InHundredths(hundredths, minutes) ==
    /\ 60 * hundredths <= 100 * minutes + 30
    /\ 100 * minutes + 30 < 60 * hundredths + 60

\* C1: a user has at most one open entry at any time, so two racing
\* clock-ins of one user never both leave an open entry.
C1_AtMostOneOpenEntry ==
    \A u \in UserIds : Cardinality(OpenEntryIds(u)) <= 1

\* C2: every closed entry has end_time - start_time <= 15 hours, whatever
\* the interleaving of the handlers that closed it.
C2_ClosedWithinMaxShift ==
    \A id \in ClosedEntryIds :
        entries[id].end_time - entries[id].start_time <= 15 * 60

\* an entry has been closed at exactly the 15-hour limit
C2_ClosedAtLimit ==
    \E id \in ClosedEntryIds :
        /\ entries[id].end_time - entries[id].start_time = 15 * 60
        /\ ServerNow > entries[id].end_time

\* C3: an entry is closed exactly once: no step changes the end_time of an
\* entry that is already closed.
C3_ClosedExactlyOnce ==
    [][\A id \in ClosedEntryIds :
          id \in DOMAIN entries' =>
              entries'[id].end_time = entries[id].end_time]_vars

\* C4: every closed entry has end_time >= start_time, whichever path
\* closed it.
C4_EndNotBeforeStart ==
    \A id \in ClosedEntryIds : entries[id].end_time >= entries[id].start_time

\* C5: a clock-out that passes its checks at time now for an open entry
\* started at start closes it with end_time = start + 15h when
\* now - start > 15h and with end_time = now otherwise; that end time is
\* what is written and reported, with duration end_time - start <= 15h.
C5_ClockOutEndTime ==
    [][\A r \in RequestIds :
          /\ (req[r].pc = "co_open" /\ req'[r].pc = "co_update") =>
                LET start == entries[req'[r].entry_id].start_time
                IN  /\ req'[r].entry_id \in OpenEntryIds(req[r].user)
                    /\ req'[r].endTime =
                          (IF ServerNow - start > 15 * 60 THEN start + 15 * 60
                           ELSE ServerNow)
          /\ (req[r].pc = "co_update" /\ req'[r].pc = "idle") =>
                LET id == req[r].entry_id
                IN  /\ entries'[id].end_time = req[r].endTime
                    /\ sent'.kind = "clock-out" /\ sent'.status = 200
                    /\ sent'.body[1].end_time = req[r].endTime
                    /\ InHundredths(sent'.body[1].duration_hours,
                                    req[r].endTime - entries[id].start_time)
                    /\ sent'.body[1].duration_hours <= 1500]_vars

\* a clock-out has answered with a capped duration
C5_CappedClockOutSent ==
    /\ sent.kind = "clock-out" /\ sent.status = 200
    /\ sent.body[1].duration_hours = 1500
    /\ ServerNow - sent.body[1].start_time > 15 * 60

\* C6: a status read that finds an open entry with elapsed time >= 15h
\* closes it with end_time = start + 15h, the value a clock-out at that
\* time computes, and reports is_working false and no current session; a
\* younger entry is reported as the current session and not written.
C6_StatusAutoTimeout ==
    [][\A r \in RequestIds :
          /\ (req[r].pc = "st_open" /\ req'[r].pc # "st_open"
                /\ OpenEntryIds(req[r].user) # {}) =>
                \E id \in OpenEntryIds(req[r].user) :
                    LET start == entries[id].start_time
                    IN  IF ServerNow - start >= 15 * 60
                          THEN /\ req'[r].pc = "st_update"
                               /\ req'[r].entry_id = id
                               /\ req'[r].endTime = start + 15 * 60
                               /\ req'[r].endTime =
                                     (IF ServerNow - start > 15 * 60
                                        THEN start + 15 * 60
                                      ELSE ServerNow)
                          ELSE /\ req'[r].pc = "st_total"
                               /\ req'[r].isWorking
                               /\ req'[r].currentSession # <<>>
                               /\ req'[r].currentSession[1].id = id
          /\ (req[r].pc = "st_update" /\ req'[r].pc # "st_update") =>
                /\ entries'[req[r].entry_id].end_time = req[r].endTime
                /\ req'[r].pc = "st_total"
                /\ ~req'[r].isWorking
                /\ req'[r].currentSession = <<>>
          /\ (req[r].pc = "st_total" /\ req'[r].pc # "st_total") =>
                /\ sent'.kind = "status" /\ sent'.status = 200
                /\ sent'.body[1].is_working = req[r].isWorking
                /\ sent'.body[1].current_session = req[r].currentSession
                /\ entries' = entries]_vars

\* a status read has closed an entry at exactly 15 hours of elapsed time
C6_StatusClosedAtLimit ==
    \E r \in RequestIds :
        /\ req[r].pc = "st_total"
        /\ req[r].entry_id # NULL
        /\ ~req[r].isWorking
        /\ entries[req[r].entry_id].end_time =
              entries[req[r].entry_id].start_time + 15 * 60
        /\ ServerNow = entries[req[r].entry_id].start_time + 15 * 60

\* C7: auto-timeout is idempotent: once a status read has closed the
\* timed-out open entry it found, with no other request in flight, the user
\* has no open entry left for an immediately following read to find or close.
C7_AutoTimeoutIdempotent ==
    [][\A r \in RequestIds :
          (/\ req[r].pc = "st_update" /\ req'[r].pc = "st_total"
           /\ entries[req[r].entry_id].end_time = NULL
           /\ \A q \in RequestIds \ {r} : req[q].pc = "idle")
          => {id \in DOMAIN entries' :
                 /\ entries'[id].user_id = req[r].user
                 /\ entries'[id].end_time = NULL} = {}]_vars

\* C8: a clock-in of an authenticated user whose timezone puts the current
\* instant in the blackout is answered ClockInBlocked at once and creates
\* no entry, whether or not the user has an open entry; no such request
\* gets as far as the open-entry check.
C8_ClockInBlocked ==
    [][/\ \A r \in RequestIds :
            (req[r].pc = "idle" /\ req'[r].pc = "ci_open") =>
                ~RestrictedInstant(req'[r].timezone, ServerNow)
       /\ (/\ sent'.kind = "clock-in"
           /\ req' = req
           /\ sent'.user # NULL
           /\ RestrictedInstant(sent'.timezone, ServerNow))
          => /\ sent'.status = 400
             /\ sent'.error = "ClockInBlocked"
             /\ entries' = entries]_vars

\* a clock-in has been blocked while the user had an open entry
C8_BlockedWithOpenEntry ==
    /\ sent.kind = "clock-in"
    /\ sent.error = "ClockInBlocked"
    /\ RestrictedInstant(sent.timezone, ServerNow)
    /\ OpenEntryIds(sent.user) # {}

\* C9: a clock-out whose auto flag is absent or not exactly true, for a
\* user with an open entry, at an instant in the blackout in the entry's
\* stored start_timezone, is answered ClockOutBlocked and leaves every
\* entry unchanged; it goes on to close an entry only outside the blackout.
C9_ManualClockOutBlocked ==
    [][\A r \in RequestIds :
          (/\ req[r].pc = "co_open" /\ req'[r].pc # "co_open"
           /\ req[r].auto # "true"
           /\ OpenEntryIds(req[r].user) # {})
          => /\ entries' = entries
             /\ IF req'[r].pc = "co_update"
                  THEN ~RestrictedInstant(
                           entries[req'[r].entry_id].start_timezone, ServerNow)
                  ELSE /\ sent'.kind = "clock-out"
                       /\ sent'.status = 400
                       /\ sent'.error = "ClockOutBlocked"
                       /\ \E id \in OpenEntryIds(req[r].user) :
                             RestrictedInstant(entries[id].start_timezone,
                                               ServerNow)]_vars

\* a manual clock-out has been blocked and the entry is still open
C9_BlockedEntryStillOpen ==
    /\ sent.kind = "clock-out"
    /\ sent.error = "ClockOutBlocked"
    /\ \E id \in OpenEntryIds(sent.user) :
          RestrictedInstant(entries[id].start_timezone, ServerNow)

\* C10: a clock-out with auto exactly true, for a user with an open entry,
\* is never blocked, at any instant: it goes on to close an open entry with
\* the capped end time, and the update writes that end time.
C10_AutoClockOutNotBlocked ==
    [][\A r \in RequestIds :
          /\ (/\ req[r].pc = "co_open" /\ req'[r].pc # "co_open"
              /\ req[r].auto = "true"
              /\ OpenEntryIds(req[r].user) # {})
             => /\ req'[r].pc = "co_update"
                /\ req'[r].entry_id \in OpenEntryIds(req[r].user)
                /\ LET start == entries[req'[r].entry_id].start_time
                   IN  req'[r].endTime =
                          (IF ServerNow - start > 15 * 60 THEN start + 15 * 60
                           ELSE ServerNow)
          /\ (req[r].pc = "co_update" /\ req'[r].pc # "co_update")
             => /\ sent'.status = 200
                /\ entries' = [entries EXCEPT
                                 ![req[r].entry_id].end_time = req[r].endTime]
      ]_vars

\* a clock-out is about to close an entry at an instant of the blackout in
\* the entry's timezone: its end time is the current instant, so its checks
\* ran at this instant, where only the auto flag lets it through
C10_ClosingInsideBlackout ==
    \E r \in RequestIds :
        /\ req[r].pc = "co_update"
        /\ req[r].endTime = ServerNow
        /\ RestrictedInstant(entries[req[r].entry_id].start_timezone, ServerNow)

\* C11: a clock-in whose open-entry lookup finds an open entry of the user
\* is answered AlreadyClockedIn and leaves the store unchanged: it never
\* goes on to the insert, so a retry that follows a committed insert adds no
\* second entry.
C11_AlreadyClockedIn ==
    [][\A r \in RequestIds :
          (/\ req[r].pc = "ci_open" /\ req'[r].pc # "ci_open"
           /\ OpenEntryIds(req[r].user) # {})
          => /\ req'[r].pc = "idle"
             /\ sent'.kind = "clock-in"
             /\ sent'.user = req[r].user
             /\ sent'.status = 400
             /\ sent'.error = "AlreadyClockedIn"
             /\ entries' = entries
             /\ nextId' = nextId
             /\ users' = users]_vars

\* a clock-in has been rejected at an unrestricted instant because the user
\* has an open entry
C11_RejectedWithOpenEntry ==
    /\ sent.kind = "clock-in"
    /\ sent.error = "AlreadyClockedIn"
    /\ ~RestrictedInstant(sent.timezone, ServerNow)
    /\ Cardinality(OpenEntryIds(sent.user)) = 1
    /\ DOMAIN entries = OpenEntryIds(sent.user)

\* C12: a clock-out whose open-entry lookup finds no open entry of the user
\* is answered NotClockedIn and changes nothing, whatever the auto flag and
\* also at an instant of the blackout, since the lookup comes before the
\* weekend restriction.
C12_NotClockedIn ==
    [][\A r \in RequestIds :
          (/\ req[r].pc = "co_open" /\ req'[r].pc # "co_open"
           /\ OpenEntryIds(req[r].user) = {})
          => /\ req'[r].pc = "idle"
             /\ sent'.kind = "clock-out"
             /\ sent'.user = req[r].user
             /\ sent'.status = 400
             /\ sent'.error = "NotClockedIn"
             /\ entries' = entries
             /\ nextId' = nextId
             /\ users' = users]_vars

\* a clock-out has been answered NotClockedIn at an instant that is in the
\* blackout in every timezone
C12_NotClockedInInsideBlackout ==
    /\ sent.kind = "clock-out"
    /\ sent.error = "NotClockedIn"
    /\ OpenEntryIds(sent.user) = {}
    /\ \A timezone \in ValidTimezones : RestrictedInstant(timezone, ServerNow)

\* the local weekday (0 = Sunday ... 6 = Saturday) and the local hour of an
\* instant in a valid timezone
WeekdayOf(timezone, now) == (((now + TzOffset(timezone)) \div (24 * 60)) + 4) % 7

HourOf(timezone, now) == ((now + TzOffset(timezone)) % (24 * 60)) \div 60

\* C13: in a valid timezone, checkWeekendRestriction returns a restriction
\* at every instant whose local weekday is Sunday, at each local hour 0 to
\* 23, and at every instant whose local weekday is Saturday with local hour
\* 18 to 23.
C13_WeekendRestricted ==
    \A timezone \in ValidTimezones :
        (\/ WeekdayOf(timezone, ServerNow) = 0
         \/ /\ WeekdayOf(timezone, ServerNow) = 6
            /\ HourOf(timezone, ServerNow) \in 18 .. 23)
        => /\ NoRestriction \notin checkWeekendRestriction(timezone, ServerNow)
           /\ checkWeekendRestriction(timezone, ServerNow) # {}

\* a clock-in has been blocked in the hour after local midnight of a Sunday
\* in New York, and the instants of the week cover every local hour of
\* Saturday and Sunday in every valid timezone
C13_BlockedAtSundayMidnight ==
    /\ sent.kind = "clock-in"
    /\ sent.error = "ClockInBlocked"
    /\ sent.timezone = "America/New_York"
    /\ WeekdayOf(sent.timezone, ServerNow) = 0
    /\ HourOf(sent.timezone, ServerNow) = 0
    /\ \A timezone \in ValidTimezones, weekday \in {0, 6}, hour \in 0 .. 23 :
          \E t \in WeekInstants :
              /\ WeekdayOf(timezone, t) = weekday
              /\ HourOf(timezone, t) = hour

\* C14: in a valid timezone, checkWeekendRestriction returns no restriction
\* on Saturday at each local hour 0 to 17 and at every hour of Monday to
\* Friday, so at those instants no clock-in is answered ClockInBlocked and
\* no clock-out is answered ClockOutBlocked.
C14_WeekdaysUnrestricted ==
    [][/\ (/\ sent'.kind = "clock-in"
           /\ sent'.timezone \in ValidTimezones
           /\ \/ WeekdayOf(sent'.timezone, ServerNow) \in 1 .. 5
              \/ /\ WeekdayOf(sent'.timezone, ServerNow) = 6
                 /\ HourOf(sent'.timezone, ServerNow) \in 0 .. 17)
          => sent'.error # "ClockInBlocked"
       /\ \A r \in RequestIds :
            (/\ req[r].pc = "co_open" /\ req'[r].pc # "co_open"
             /\ \A id \in OpenEntryIds(req[r].user) :
                   /\ entries[id].start_timezone \in ValidTimezones
                   /\ \/ WeekdayOf(entries[id].start_timezone, ServerNow)
                            \in 1 .. 5
                      \/ /\ WeekdayOf(entries[id].start_timezone, ServerNow)
                               = 6
                         /\ HourOf(entries[id].start_timezone, ServerNow)
                               \in 0 .. 17)
            => sent'.error # "ClockOutBlocked"]_vars

\* the non-empty strings among the timezone values that are not names of a
\* timezone
UnrecognizedNames ==
    {timezone \in AnyTimezoneInputs \ ValidTimezones :
        timezone \notin {"", Undefined, NotAString, NoBody}}

\* C15: the weekend restriction fails open: a clock-in whose timezone is a
\* non-empty unrecognized string is never blocked, at any instant, and when
\* the user has no open entry it creates the entry and is answered 201; a
\* manual clock-out of a user whose open entries store such a timezone is
\* never blocked.
C15_FailOpen ==
    [][\A r \in RequestIds :
          /\ (/\ sent'.kind = "clock-in"
              /\ sent'.timezone \in UnrecognizedNames)
             => sent'.error # "ClockInBlocked"
          /\ (/\ req[r].pc = "ci_open" /\ req'[r].pc # "ci_open"
              /\ req[r].timezone \in UnrecognizedNames
              /\ OpenEntryIds(req[r].user) = {})
             => req'[r].pc = "ci_insert"
          /\ (/\ req[r].pc = "ci_insert" /\ req'[r].pc # "ci_insert"
              /\ req[r].timezone \in UnrecognizedNames)
             => /\ sent'.status = 201
                /\ \E id \in DOMAIN entries' \ DOMAIN entries :
                      /\ entries'[id].user_id = req[r].user
                      /\ entries'[id].end_time = NULL
                      /\ entries'[id].start_timezone = req[r].timezone
          /\ (/\ req[r].pc = "co_open" /\ req'[r].pc # "co_open"
              /\ OpenEntryIds(req[r].user) # {}
              /\ \A id \in OpenEntryIds(req[r].user) :
                    entries[id].start_timezone \in UnrecognizedNames)
             => req'[r].pc = "co_update"]_vars

\* the closed entries of a user, and those of them that start in a year:
\* from Jan 1 00:00 UTC of the year up to, not including, Jan 1 00:00 UTC
\* of the next (no year from 1970 to 1971 is a leap year)
ClosedOf(user_id) == {id \in ClosedEntryIds : entries[id].user_id = user_id}

JanFirst(year) == (year - 1970) * 365 * 24 * 60

ClosedInYear(user_id, year) ==
    {id \in ClosedOf(user_id) :
        /\ JanFirst(year) <= entries[id].start_time
        /\ entries[id].start_time < JanFirst(year + 1)}

\* the sum of end_time - start_time over a set of closed entries, in minutes
RECURSIVE Worked(_)
Worked(ids) ==
    IF ids = {} THEN 0
    ELSE LET id == CHOOSE i \in ids : TRUE
         IN  entries[id].end_time - entries[id].start_time + Worked(ids \ {id})

\* C16: an open entry never contributes to the year total or to a heatmap
\* day, whatever its age: the year total and every heatmap day are at most
\* the time of the user's closed entries, the heatmap has at most one day
\* per closed entry, and a user with no closed entry gets a total of 0 and
\* an empty heatmap.
C16_OpenEntryNotCounted ==
    [][\A r \in RequestIds :
          /\ (req[r].pc = "st_total" /\ req'[r].pc # "st_total") =>
                LET total == sent'.body[1].year_total_hours
                IN  /\ 60 * total <= 100 * Worked(ClosedOf(req[r].user)) + 30
                    /\ ClosedOf(req[r].user) = {} => total = 0
          /\ (req[r].pc = "hm_days" /\ req'[r].pc # "hm_days") =>
                LET days == sent'.body[1].days
                IN  /\ \A date \in DOMAIN days :
                          60 * days[date]
                              <= 100 * Worked(ClosedOf(req[r].user)) + 30
                    /\ Cardinality(DOMAIN days)
                          <= Cardinality(ClosedOf(req[r].user))]_vars

\* a heatmap with one day has been sent to a user who has one closed entry
\* in the year and an open entry that is older than 15 hours
C16_HeatmapBesideStaleOpenEntry ==
    /\ sent.kind = "heatmap" /\ sent.status = 200
    /\ Cardinality(DOMAIN sent.body[1].days) = 1
    /\ Cardinality(ClosedOf(sent.user)) = 1
    /\ \E id \in OpenEntryIds(sent.user) :
          ServerNow - entries[id].start_time > 15 * 60

\* C17: the year total of a status read is the sum of end_time - start_time
\* over exactly the user's closed entries that start in the read's year,
\* in hours rounded to two decimals; an entry that starts in the year and
\* ends in the next is counted in full, one that starts before the year
\* not at all.
C17_YearTotal ==
    [][\A r \in RequestIds :
          (req[r].pc = "st_total" /\ req'[r].pc # "st_total") =>
              /\ sent'.kind = "status" /\ sent'.status = 200
              /\ InHundredths(sent'.body[1].year_total_hours,
                      Worked(ClosedInYear(req[r].user, req[r].currentYear)))
              /\ entries' = entries]_vars

\* a status read in 1970 has reported 3.00 hours for a user whose only
\* closed entry starts in 1970 and ends, 3 hours later, in 1971, while
\* another user has a closed entry too
C17_CountedInFullForStartYear ==
    /\ sent.kind = "status" /\ sent.status = 200
    /\ sent.body[1].year_total_hours = 300
    /\ \E id \in ClosedOf(sent.user) :
          /\ ClosedOf(sent.user) = {id}
          /\ entries[id].start_time < JanFirst(1971)
          /\ entries[id].end_time > JanFirst(1971)
          /\ entries[id].end_time - entries[id].start_time = 3 * 60
    /\ \E id \in ClosedEntryIds : entries[id].user_id # sent.user

\* C18: the heatmap has exactly one key for each UTC calendar date of the
\* year on which a closed entry of the user starts, mapped to the sum of
\* the full durations of the entries starting on that date, in hours
\* rounded to two decimals; an entry that spans midnight counts for its
\* start date only.
C18_HeatmapByStartDate ==
    [][\A r \in RequestIds :
          (req[r].pc = "hm_days" /\ req'[r].pc # "hm_days") =>
              LET closed == ClosedInYear(req[r].user, req[r].currentYear)
                  dateOf(id) == entries[id].start_time \div (24 * 60)
                  days == sent'.body[1].days
              IN  /\ sent'.kind = "heatmap" /\ sent'.status = 200
                  /\ DOMAIN days = {dateOf(id) : id \in closed}
                  /\ \A date \in DOMAIN days :
                        InHundredths(days[date],
                            Worked({id \in closed : dateOf(id) = date}))]_vars

\* C19: per user the session state (Open when the user has an open entry,
\* NoSession otherwise) follows the machine.  It starts as NoSession; it
\* goes from NoSession to Open only in a successful clock-in and from Open
\* to NoSession only in a successful clock-out or an auto-timeout; a
\* clock-in succeeds only from NoSession and a close ends in NoSession; and
\* no state is terminal: a clock-in that finds no open entry goes on to
\* insert one and succeeds.
C19_SessionMachine ==
    [][\A u \in UserIds :
          LET open == OpenEntryIds(u) # {}
              openAfter == {id \in DOMAIN entries' :
                              /\ entries'[id].user_id = u
                              /\ entries'[id].end_time = NULL} # {}
              clockedIn == \E r \in RequestIds :
                              /\ req[r].pc = "ci_insert" /\ req'[r].pc = "idle"
                              /\ req[r].user = u
                              /\ sent'.status = 201
              clockedOut == \E r \in RequestIds :
                              /\ req[r].pc = "co_update" /\ req'[r].pc = "idle"
                              /\ req[r].user = u
                              /\ sent'.status = 200
              timedOut == \E r \in RequestIds :
                              /\ req[r].pc = "st_update"
                              /\ req'[r].pc = "st_total"
                              /\ req[r].user = u
          IN  /\ (nextId = 1) => ~open
              /\ (~open /\ openAfter) => clockedIn
              /\ (open /\ ~openAfter) => (clockedOut \/ timedOut)
              /\ clockedIn => (~open /\ openAfter)
              /\ (clockedOut \/ timedOut) => ~openAfter
              /\ \A r \in RequestIds :
                    /\ (/\ req[r].pc = "ci_open" /\ req'[r].pc # "ci_open"
                        /\ req[r].user = u /\ ~open)
                       => req'[r].pc = "ci_insert"
                    /\ (/\ req[r].pc = "ci_insert" /\ req'[r].pc # "ci_insert"
                        /\ req[r].user = u)
                       => (sent'.status = 201 /\ openAfter)]_vars

\* C20: a clock-in of a logged-in user whose timezone is missing, empty or
\* not a string is answered InvalidInput at once and creates no entry,
\* also at an instant of the blackout and when the user has an open entry;
\* no such request gets as far as the open-entry check.
C20_TimezoneRequired ==
    [][/\ \A r \in RequestIds :
            (req[r].pc = "idle" /\ req'[r].pc = "ci_open") =>
                req'[r].timezone \notin {NoBody, Undefined, "", NotAString}
       /\ (/\ sent'.kind = "clock-in"
           /\ req' = req
           /\ sent'.user # NULL
           /\ sent'.timezone \in {NoBody, Undefined, "", NotAString})
          => /\ sent'.status = 400
             /\ sent'.error = "InvalidInput"
             /\ entries' = entries
             /\ nextId' = nextId]_vars

----------------------------------------------------------------------------
(* Sessions and accounts *)

TimeEndpoints == {"clock-in", "clock-out", "status", "heatmap"}

\* the users that some cookie a client holds resolves to
ResolvableUsers ==
    {u \in DOMAIN users :
        users[u].session_token # NULL /\ users[u].session_token \in jar}

\* C21: a clock-in, clock-out, status or heatmap request whose cookie
\* resolves to no user (no cookie, or a token that matches no user) is
\* answered 401 Unauthenticated and leaves every entry as it is: a handler
\* that goes on past its first step, or answers in it for a user, acts for
\* a user that a cookie resolves to, and the response for no user is the
\* Unauthenticated one, with the entries unchanged
C21_Unauthenticated ==
    [][/\ \A r \in RequestIds :
            (/\ req[r].pc = "idle"
             /\ req'[r].pc \in {"ci_open", "co_open", "st_open", "hm_days"})
            => req'[r].user \in ResolvableUsers
       /\ (sent'.kind \in TimeEndpoints /\ sent'.user = NULL)
            => /\ sent'.status = 401
               /\ sent'.error = "Unauthenticated"
               /\ req' = req
               /\ entries' = entries
       /\ (sent'.kind \in TimeEndpoints /\ sent'.user # NULL /\ req' = req)
            => sent'.user \in ResolvableUsers
      ]_vars

\* a heatmap request is refused while the only token a client holds is one
\* that the store has dropped, with entries in the store
C21_StaleTokenRefused ==
    /\ sent.kind = "heatmap"
    /\ sent.error = "Unauthenticated"
    /\ ResolvableUsers = {}
    /\ jar # {NULL}
    /\ DOMAIN entries # {}

\* the session identifiers that resolve to user u
ValidSessions(u) ==
    {c \in IssuedTokens : u \in DOMAIN users /\ users[u].session_token = c}

\* C22: a user has at most one valid session identifier at any time; the
\* UPDATE of a login leaves the identifier it issues as the only one that
\* resolves to the user, so that none of the identifiers handed out before
\* (by a login or by the registration) does; after the UPDATE of a logout
\* no identifier resolves to the user
C22_SingleSession ==
    [][/\ \A u \in DOMAIN users : Cardinality(ValidSessions(u)) <= 1
       /\ \A r \in RequestIds :
            (req[r].pc = "li_update" /\ req'[r].pc # "li_update")
            => /\ sent'.kind = "login" /\ sent'.status = 200
               /\ sent'.body[1].cookie \notin IssuedTokens
               /\ \A c \in IssuedTokens :
                    ~(/\ req[r].user \in DOMAIN users'
                      /\ users'[req[r].user].session_token = c)
               /\ req[r].user \in DOMAIN users'
                    => users'[req[r].user].session_token = sent'.body[1].cookie
       /\ \A r \in RequestIds :
            (req[r].pc = "lo_update" /\ req'[r].pc # "lo_update")
            => /\ sent'.kind = "logout" /\ sent'.status = 200
               /\ req[r].user \in DOMAIN users'
                    => users'[req[r].user].session_token = NULL
      ]_vars

\* a second login in a row has been answered: the cookie of the first
\* login is still held by a client and resolves to no user, the new one
\* resolves to the user
C22_SecondLogin ==
    /\ sent.kind = "login"
    /\ sent.status = 200
    /\ sent.body[1].cookie = 4
    /\ getCurrentUser(4) = sent.user
    /\ 3 \in jar
    /\ getCurrentUser(3) = NULL
    /\ getCurrentUser(1) = NULL

\* C23: in every reachable state the owner of each time entry is an
\* existing user, and the DELETE of an account deletion removes the user
\* together with all of their entries, after which the session identifier
\* the user had resolves to no user
C23_AccountDeletion ==
    [][/\ \A id \in DOMAIN entries : entries[id].user_id \in DOMAIN users
       /\ \A id \in DOMAIN entries' : entries'[id].user_id \in DOMAIN users'
       /\ \A r \in RequestIds :
            (req[r].pc = "da_delete" /\ req'[r].pc # "da_delete")
            => /\ sent'.kind = "delete" /\ sent'.status = 200
               /\ req[r].user \notin DOMAIN users'
               /\ \A id \in DOMAIN entries' :
                    /\ entries'[id].user_id # req[r].user
                    /\ id \in DOMAIN entries
                    /\ entries'[id] = entries[id]
               /\ \A id \in DOMAIN entries :
                    entries[id].user_id # req[r].user => id \in DOMAIN entries'
               /\ \A c \in ValidSessions(req[r].user), u \in DOMAIN users' :
                    users'[u].session_token # c
      ]_vars

\* an account that had entries has been deleted: its entries are gone and
\* the cookie its client still holds resolves to no user
C23_DeletedWithEntries ==
    /\ sent.kind = "delete"
    /\ sent.status = 200
    /\ sent.user = 1
    /\ 1 \notin DOMAIN users
    /\ nextId > 1
    /\ DOMAIN entries = {}
    /\ 1 \in jar
    /\ getCurrentUser(1) = NULL

\* C24: the outcome of a clock-out depends only on the stored entry, the
\* current time and the auto flag: whatever step the handler takes for a
\* request after the SELECT of the open entry (the response it sends, or
\* the entry and end time it goes on to write), it takes the same step for
\* the request that differs only in the timezone of its body
C24_TimezoneIgnored ==
    [][\A r \in RequestIds :
          (req[r].pc = "co_open" /\ req'[r].pc # "co_open")
          => \A timezone \in zones :
               ClockOutOpenEntryOf(r, [req[r] EXCEPT !.timezone = timezone])
      ]_vars

\* a clock-out whose body says UTC is about to be checked against the
\* user's open entry, started in New York, on Saturday at 18:00Z, when the
\* blackout applies in UTC and not yet in New York
C24_RequestZoneDiffers ==
    \E r \in RequestIds :
      /\ req[r].pc = "co_open"
      /\ req[r].timezone = "UTC"
      /\ req[r].auto = "absent"
      /\ clock = 8802 * Hour
      /\ checkWeekendRestriction("UTC", ServerNow) = {SaturdayMessage}
      /\ checkWeekendRestriction("America/New_York", ServerNow) = {NoRestriction}
      /\ \E id \in OpenEntryIds(req[r].user) :
           entries[id].start_timezone = "America/New_York"

\* the request handlers that are about to write the end time of entry id
ClosingEntry(id) ==
    {r \in RequestIds :
        req[r].pc \in {"co_update", "st_update"} /\ req[r].entry_id = id}

\* C25: no step changes the start time, the start timezone or the owner of
\* an entry that exists before and after it; an end time changes only in
\* the UPDATE of a clock-out or of an auto-timeout for that entry, and that
\* UPDATE leaves every other entry, and the set of entries, as they are
C25_EntryFrame ==
    [][/\ \A id \in DOMAIN entries \cap DOMAIN entries' :
            /\ entries'[id].start_time = entries[id].start_time
            /\ entries'[id].start_timezone = entries[id].start_timezone
            /\ entries'[id].user_id = entries[id].user_id
            /\ entries'[id].end_time # entries[id].end_time
                 => \E r \in ClosingEntry(id) : req'[r].pc # req[r].pc
       /\ \A r \in RequestIds :
            (req[r].pc \in {"co_update", "st_update"} /\ req'[r].pc # req[r].pc)
            => /\ DOMAIN entries' = DOMAIN entries
               /\ \A id \in DOMAIN entries \ {req[r].entry_id} :
                    entries'[id] = entries[id]
               /\ req[r].entry_id \in DOMAIN entries
                    => entries'[req[r].entry_id] =
                         [entries[req[r].entry_id] EXCEPT
                            !.end_time = req[r].endTime]
      ]_vars

\* a clock-out has closed one of two entries of the store: the other one,
\* open since before the clock-out was answered, is as it was
C25_ClosedBesideAnother ==
    /\ sent.kind = "clock-out"
    /\ sent.status = 200
    /\ \E id \in ClosedEntryIds, other \in DOMAIN entries :
         /\ id = sent.body[1].id
         /\ other # id
         /\ entries[other].end_time = NULL
         /\ entries[id].start_timezone # ""

\* the entries of user_id that are open although they started 15 hours or
\* more before now
TimedOutOpenEntryIds(user_id, now) ==
    {id \in OpenEntryIds(user_id) : AutoTimedOut(entries[id].start_time, now)}

\* C26: the auto-timeout check is made at the top of every status and
\* heatmap read: when a read answers, no entry of its user that had
\* exceeded 15 hours when the read looked at the store is still open, and
\* the entry that a status read found so is closed 15 hours after its start
C26_TimeoutOnEveryRead ==
    [][\A r \in RequestIds :
          /\ (req[r].pc = "hm_days" /\ req'[r].pc # "hm_days")
               => \A id \in TimedOutOpenEntryIds(req[r].user, ServerNow) :
                    /\ id \in DOMAIN entries'
                    /\ entries'[id].end_time =
                         AutoTimeoutEndTime(entries[id].start_time)
          /\ (req[r].pc = "st_open" /\ req'[r].pc # "st_open"
                 /\ TimedOutOpenEntryIds(req[r].user, ServerNow) # {})
               => /\ req'[r].pc = "st_update"
                  /\ req'[r].entry_id
                       \in TimedOutOpenEntryIds(req[r].user, ServerNow)
                  /\ req'[r].endTime =
                       AutoTimeoutEndTime(entries[req'[r].entry_id].start_time)
      ]_vars

\* C27: a status read writes to the store only when it closes a timed-out
\* open entry.  Its only step that changes an entry is the UPDATE, which
\* sets the end time of the entry it selected to 15 hours after the start;
\* it comes to that step only when its SELECT returned an open entry that
\* started 15 hours or more before; with no open entry, or with one below
\* 15 hours, the read goes on to its total and leaves every entry unchanged
C27_StatusWrites ==
    [][\A r \in RequestIds :
          /\ (req[r].pc \in {"st_open", "st_total"} /\ req'[r].pc # req[r].pc)
               => entries' = entries
          /\ (req[r].pc = "idle" /\ req'[r].pc = "st_open") => entries' = entries
          /\ (sent'.kind = "status" /\ req' = req) => entries' = entries
          /\ (req[r].pc = "st_open" /\ req'[r].pc # "st_open")
               => IF req'[r].pc = "st_update"
                    THEN /\ req'[r].entry_id \in OpenEntryIds(req[r].user)
                         /\ ServerNow - entries[req'[r].entry_id].start_time
                               >= 15 * Hour
                    ELSE /\ req'[r].pc = "st_total"
                         /\ \/ OpenEntryIds(req[r].user) = {}
                            \/ \E id \in OpenEntryIds(req[r].user) :
                                 ServerNow - entries[id].start_time < 15 * Hour
          /\ (req[r].pc = "st_update" /\ req'[r].pc # "st_update")
               => /\ req'[r].pc = "st_total"
                  /\ DOMAIN entries' = DOMAIN entries
                  /\ \A id \in DOMAIN entries :
                       entries'[id] =
                         IF id = req[r].entry_id
                           THEN [entries[id] EXCEPT
                                   !.end_time = entries[id].start_time + 15 * Hour]
                           ELSE entries[id]
      ]_vars

\* a status read has answered for a user whose open entry is 8 hours old:
\* the entry is still open
C27_OpenEntryLeftOpen ==
    /\ sent.kind = "status"
    /\ sent.status = 200
    /\ sent.body[1].is_working
    /\ \E id \in OpenEntryIds(sent.user) :
         /\ sent.body[1].current_session[1].id = id
         /\ clock - entries[id].start_time = 8 * Hour

\* C28: nothing but the UPDATE of a status read or of a clock-out closes an
\* open entry that has passed 15 hours, and a status read or a clock-out
\* that selects the entry after it has passed 15 hours closes it with a
\* duration of exactly 15 hours: such a read plans the end time 15 hours
\* after the start, and its UPDATE writes the end time it planned
C28_LazyTimeout ==
    [][/\ \A id \in DOMAIN entries :
            (/\ entries[id].end_time = NULL
             /\ clock - entries[id].start_time > 15 * Hour
             /\ entries'[id].end_time # NULL)
            => \E r \in ClosingEntry(id) :
                 /\ req'[r].pc # req[r].pc
                 /\ req[r].user = entries[id].user_id
                 /\ entries'[id].end_time = req[r].endTime
       /\ \A r \in RequestIds :
            (/\ req[r].pc \in {"co_open", "st_open"}
             /\ req'[r].pc \in {"co_update", "st_update"})
            => LET id == req'[r].entry_id
               IN  /\ id \in OpenEntryIds(req[r].user)
                   /\ ServerNow - entries[id].start_time > 15 * Hour
                        => req'[r].endTime - entries[id].start_time = 15 * Hour
      ]_vars

\* a clock-out has closed, 31 hours after its start, an entry that no
\* status read had closed: the entry lasts 15 hours
C28_ClosedLateByClockOut ==
    /\ sent.kind = "clock-out"
    /\ sent.status = 200
    /\ \E id \in ClosedEntryIds :
         /\ id = sent.body[1].id
         /\ clock - entries[id].start_time = 31 * Hour
         /\ entries[id].end_time - entries[id].start_time = 15 * Hour
         /\ InHundredths(sent.body[1].duration_hours, 15 * Hour)

\* C29: sessions of one user never overlap: of any two entries of the same
\* user, the one that starts earlier is closed, and its end time is not
\* after the start time of the later one
C29_NoOverlap ==
    \A i, j \in DOMAIN entries :
        (/\ entries[i].user_id = entries[j].user_id
         /\ entries[i].start_time < entries[j].start_time)
        => /\ entries[i].end_time # NULL
           /\ entries[i].end_time <= entries[j].start_time

\* C30: auto-timeout is not gated by the weekend restriction: a status read
\* that looks at the store 15 hours or more after the start of an open
\* entry of its user closes that entry, whatever the weekday and the hour:
\* it goes on to the UPDATE of that entry with the end time 15 hours after
\* the start, and the UPDATE leaves the entry closed
C30_TimeoutNotGated ==
    [][\A r \in RequestIds :
          /\ (req[r].pc = "st_open" /\ req'[r].pc # "st_open")
               => \A id \in TimedOutOpenEntryIds(req[r].user, ServerNow) :
                    /\ req'[r].pc = "st_update"
                    /\ req'[r].entry_id = id
                    /\ req'[r].endTime = entries[id].start_time + 15 * Hour
          /\ (req[r].pc = "st_update" /\ req'[r].pc # "st_update")
               => (req[r].entry_id \in DOMAIN entries
                    => entries'[req[r].entry_id].end_time # NULL)
      ]_vars

----------------------------------------------------------------------------
(* Totals over time and across users *)

\* the years in which the observed instants lie
Years == {1970, 1971}

\* C31: for a fixed calendar year, the year_total_hours that successive
\* status reads report for a user never decreases: no step of any handler
\* lowers the total that a status read of the user reports for the year
C31_YearTotalMonotone ==
    [][\A u \in DOMAIN users, year \in Years :
          RoundedHours(YearTotalHours(u, year))
            <= RoundedHours(YearTotalHours(u, year))'
      ]_vars

\* C32: in a status read that triggers auto-timeout the close comes before
\* the year total: when the read answers, the entry it closed lasts 15
\* hours in the store, and the year_total_hours of the response is the
\* total of the user's completed sessions of the year with that entry among
\* them, when the entry started in the current year
C32_TotalIncludesTimeout ==
    [][\A r \in RequestIds :
          (/\ req[r].pc = "st_total"
           /\ req'[r].pc # "st_total"
           /\ req[r].entry_id # NULL)
          => LET id == req[r].entry_id
             IN  /\ sent'.kind = "status"
                 /\ ~sent'.body[1].is_working
                 /\ id \in DOMAIN entries
                 /\ entries[id].end_time - entries[id].start_time = 15 * Hour
                 /\ (/\ entries[id].start_time >= YearStart(req[r].currentYear)
                     /\ entries[id].start_time < YearStart(req[r].currentYear + 1))
                    => sent'.body[1].year_total_hours =
                         RoundedHours(
                           SumHours({i \in ClosedEntryIds \cup {id} :
                              /\ entries[i].user_id = req[r].user
                              /\ entries[i].start_time
                                   >= YearStart(req[r].currentYear)
                              /\ entries[i].start_time
                                   < YearStart(req[r].currentYear + 1)}))
      ]_vars

\* C33: in every status response is_working is true exactly when
\* current_session is not null.  Taking the store as the read finds it at
\* its SELECT of the open entries, with the read's own close applied: when
\* is_working is true the user has an open entry, the one reported, with
\* 0 <= elapsed_seconds < 54000; when is_working is false the user has no
\* open entry
C33_StatusResponse ==
    [][\A r \in RequestIds :
          /\ (req[r].pc = "st_open" /\ req'[r].pc # "st_open")
               => IF req'[r].pc = "st_update"
                    THEN OpenEntryIds(req[r].user) \ {req'[r].entry_id} = {}
                    ELSE /\ req'[r].pc = "st_total"
                         /\ req'[r].isWorking <=> req'[r].currentSession # <<>>
                         /\ IF req'[r].isWorking
                              THEN /\ req'[r].currentSession[1].id
                                        \in OpenEntryIds(req[r].user)
                                   /\ req'[r].currentSession[1].elapsed_seconds >= 0
                                   /\ req'[r].currentSession[1].elapsed_seconds
                                        < 54000
                              ELSE OpenEntryIds(req[r].user) = {}
          /\ (req[r].pc = "st_update" /\ req'[r].pc # "st_update")
               => /\ ~req'[r].isWorking
                  /\ req'[r].currentSession = <<>>
          /\ (req[r].pc = "st_total" /\ req'[r].pc # "st_total")
               => /\ sent'.kind = "status"
                  /\ sent'.body[1].is_working = req[r].isWorking
                  /\ sent'.body[1].current_session = req[r].currentSession
                  /\ sent'.body[1].is_working
                       <=> sent'.body[1].current_session # <<>>
      ]_vars

\* the sum of the values of the heatmap's days object, in hundredths
RECURSIVE SumOfDays(_, _)
SumOfDays(days, keys) ==
    IF keys = {} THEN 0
    ELSE LET k == CHOOSE d \in keys : TRUE
         IN  days[k] + SumOfDays(days, keys \ {k})

\* the sum of the day totals before rounding, in minutes
RECURSIVE SumOfTotalHours(_, _, _)
SumOfTotalHours(user_id, currentYear, dates) ==
    IF dates = {} THEN 0
    ELSE LET d == CHOOSE x \in dates : TRUE
         IN  TotalHours(user_id, currentYear, d)
               + SumOfTotalHours(user_id, currentYear, dates \ {d})

HeatmapSum(user_id, currentYear) ==
    SumOfDays(HeatmapDaysOf(user_id, currentYear),
              DOMAIN HeatmapDaysOf(user_id, currentYear))

\* C34, as claimed: for the same store and the same year, the sum of all
\* heatmap day totals of a user equals that user's year total
C34_HeatmapSumsToYearTotal ==
    \A u \in DOMAIN users, year \in Years :
        HeatmapSum(u, year) = RoundedHours(YearTotalHours(u, year))

\* C34, amended: for the same store and the same year the day totals and
\* the year total range over the same closed entries, so that they are
\* equal before rounding; as reported, each rounded to two decimals, the
\* sum of the n day totals differs from the year total by at most (n + 1)/2
\* hundredths of an hour
C34_HeatmapSumsUpToRounding ==
    \A u \in DOMAIN users, year \in Years :
        LET n == Cardinality(WorkDates(u, year))
            d == HeatmapSum(u, year) - RoundedHours(YearTotalHours(u, year))
        IN  /\ SumOfTotalHours(u, year, WorkDates(u, year))
                 = YearTotalHours(u, year)
            /\ Cardinality(DOMAIN HeatmapDaysOf(u, year)) = n
            /\ 2 * d <= n + 1
            /\ -(2 * d) <= n + 1

\* a heatmap read has answered with two days of one minute each, reported
\* as 0.02 hours each, while the year total of the two minutes is 0.03
C34_TwoShortDays ==
    /\ sent.kind = "heatmap"
    /\ sent.status = 200
    /\ sent.body[1].year = 1971
    /\ sent.body[1].days = HeatmapDaysOf(sent.user, 1971)
    /\ Cardinality(DOMAIN sent.body[1].days) = 2
    /\ HeatmapSum(sent.user, 1971) = 4
    /\ RoundedHours(YearTotalHours(sent.user, 1971)) = 3

\* the rows of time_entries a user owns
EntriesOf(user_id) ==
    [id \in {i \in DOMAIN entries : entries[i].user_id = user_id} |->
        entries[id]]

\* C35: a step changes the entries, the year total or the heatmap of a user
\* only if it is a step of a clock-in, clock-out or status handler that
\* resolved this user from its cookie; a step taken for one user leaves the
\* entries, the year totals and the heatmaps of every other user as they
\* were
C35_PerUserIsolation ==
    [][\A v \in UserIds :
          (\/ EntriesOf(v)' # EntriesOf(v)
           \/ \E year \in Years :
                 \/ YearTotalHours(v, year)' # YearTotalHours(v, year)
                 \/ HeatmapDaysOf(v, year)' # HeatmapDaysOf(v, year)) =>
              \E r \in RequestIds :
                  /\ req[r].pc \in {"ci_insert", "co_update", "st_update"}
                  /\ req[r].user = v
                  /\ req'[r].pc # req[r].pc]_vars

\* user 1 has clocked out while user 2 has a session open for 15 hours:
\* the entry of user 2 is still open
C35_ClosedBesideOpenPeer ==
    /\ sent.kind = "clock-out"
    /\ sent.status = 200
    /\ sent.user = 1
    /\ \E id \in DOMAIN entries :
          /\ entries[id].user_id = 1
          /\ entries[id].end_time = clock
    /\ \E id \in DOMAIN entries :
          /\ entries[id].user_id = 2
          /\ entries[id].start_time = clock - 15 * Hour
          /\ entries[id].end_time = NULL

----------------------------------------------------------------------------
(* The page during the blackout *)

\* C36: when loadStatus receives a status with an open session while the
\* local time of the browser is inside the blackout window, it calls
\* autoClockOut and leaves the document as it is, the working state is not
\* shown; the request autoClockOut sends is a clock-out with auto: true; and
\* when that clock-out succeeds the page is in the not-working state, the
\* elapsed timer stopped and the punch button disabled
C36_AutoClockOutInBlackout ==
    [][\A r \in RequestIds :
          /\ (/\ Responded(r)
              /\ page.fetches[r] = "loadStatus"
              /\ sent.kind = "status"
              /\ sent.status = 200
              /\ sent.body[1].is_working
              /\ sent.body[1].current_session # <<>>
              /\ RestrictedInstant(browserTimeZone, clock)
              /\ page' # page) =>
                 /\ page'.fetches[r] = "autoClockOut"
                 /\ page'.statusText = page.statusText
                 /\ page'.punchButtonText = page.punchButtonText
                 /\ page'.elapsedTimer = page.elapsedTimer
                 /\ page'.sessionStartTime = page.sessionStartTime
          /\ (/\ Fetching(r)
              /\ page.fetches[r] = "autoClockOut"
              /\ req' # req) =>
                 \/ /\ req'[r].pc = "co_open"
                    /\ req'[r].auto = "true"
                 \/ /\ sent'.kind = "clock-out"
                    /\ sent'.status = 401
          /\ (/\ Responded(r)
              /\ page.fetches[r] = "autoClockOut"
              /\ sent.kind = "clock-out"
              /\ sent.status = 200
              /\ page' # page) =>
                 /\ ~page'.isWorking
                 /\ page'.sessionStartTime = NULL
                 /\ page'.statusText \in {SaturdayMessage, SundayMessage}
                 /\ page'.punchButtonText = "Clock In"
                 /\ ~page'.elapsedTimer
                 /\ page'.punchDisabled
                 /\ page'.fetches[r] = "none"]_vars

\* the page has clocked in on Saturday morning, the blackout has begun, and
\* a session that only a clock-out with auto: true can end at 18:00 has
\* been ended then; the page shows the Saturday message, with the timer
\* stopped and the punch button disabled
C36_ClockedOutByThePage ==
    /\ clock = 8802 * Hour
    /\ \E id \in DOMAIN entries :
          /\ entries[id].start_time = 8795 * Hour
          /\ entries[id].start_timezone = "UTC"
          /\ entries[id].end_time = clock
    /\ ~page.isWorking
    /\ page.sessionStartTime = NULL
    /\ page.statusText = SaturdayMessage
    /\ page.punchButtonText = "Clock In"
    /\ ~page.elapsedTimer
    /\ page.punchDisabled
    /\ \A r \in RequestIds : page.fetches[r] = "none"

====
